---- MODULE Spec2Model ----
(***************************************************************************)
(* Triple Triad solver: the game engine (src/src/game.rs) and the search   *)
(* that recommends moves (src/src/search.rs).                              *)
(*                                                                         *)
(* Four specifications share the variables:                                *)
(*   Spec      a match: an engine holding the history of snapshots, moves  *)
(*             applied for alternating sides and undone as the search does; *)
(*   SpecCard  the two pure functions of Card (get_modified_value and      *)
(*             is_flipped_by) applied to inputs drawn from bounded sets;   *)
(*   SpecSearch  get_best_move_for_player step by step: phase 1, the Monte *)
(*             Carlo workers and the parallel reduction of their results;  *)
(*   SpecWorkers  the parallel region move by move: every worker's playout *)
(*             moves and undos on its engine, interleaved.                 *)
(***************************************************************************)
EXTENDS Integers, Sequences, FiniteSets, TLC

VARIABLES game, current_player, probe, search

vars == <<game, current_player, probe, search>>

(***************************************************************************)
(* Bounds of the model                                                     *)
(***************************************************************************)
\* Number of empty cells in the position the exploration of a match starts at.
MaxEmpty == 4
\* Suit modifiers handed to the pure functions range over -MaxProbeMod..MaxProbeMod.
MaxProbeMod == 11
\* Number of empty cells in the position the exploration of the search starts at.
MaxSearchEmpty == 3
\* The Monte Carlo phase is explored with every number of playouts per
\* candidate from 1 to MaxIterations (MONTE_CARLO_ITERATIONS is 100000).
MaxIterations == 1
\* The Monte Carlo phase is explored for at most MaxCandidates tied moves, that
\* is, at most MaxCandidates workers.
MaxCandidates == 3
\* Number of empty cells in the position the move-by-move exploration of the
\* workers starts at.
MaxWorkerEmpty == 2
\* The workers are explored move by move for at most MaxWorkers tied moves.
MaxWorkers == 2

(***************************************************************************)
(* Program constants                                                       *)
(***************************************************************************)
MAX_VALUE == 10
SearchDepth == 10
NEG_INFINITY == -1000
INFINITY == 1000
DeckSize == 5
HandSlots == 10
BoardCells == 9

Min(a, b) == IF a < b THEN a ELSE b
Max(a, b) == IF a > b THEN a ELSE b

\* The function f itself.  TLC evaluates a function expression anew at every
\* application; merged with the empty function it is evaluated once.
Evaluated(f) == f @@ <<>>

(***************************************************************************)
(* Players, directions, suits                                              *)
(***************************************************************************)
Players == {"Red", "Blue"}
Other(p) == IF p = "Blue" THEN "Red" ELSE "Blue"

Directions == {"North", "South", "West", "East"}
\* position of a direction's rank in Card.values ([n, s, w, e])
DirIndex(d) == CASE d = "North" -> 1 [] d = "South" -> 2 [] d = "West" -> 3 [] d = "East" -> 4
Opposite(d) ==
    CASE d = "East" -> "West" [] d = "North" -> "South"
      [] d = "South" -> "North" [] d = "West" -> "East"

Suits == {"Primal", "Beastman", "Scion", "Garlean"}
NoSuit == "NoSuit"

Cells == 0 .. (BoardCells - 1)
Slots == 0 .. (HandSlots - 1)

(***************************************************************************)
(* Rules                                                                   *)
(***************************************************************************)
NoRules ==
    [same |-> FALSE, plus |-> FALSE, order |-> FALSE, chaos |-> FALSE,
     reverse |-> FALSE, fallen_ace |-> FALSE, ascension |-> FALSE,
     decension |-> FALSE, swap |-> FALSE]

\* Rules::add_rule_from_csv: the rule codes of the NPC table
AddRuleFromCsv(r, code) ==
    CASE code = 4 -> [r EXCEPT !.same = TRUE]
      [] code = 6 -> [r EXCEPT !.plus = TRUE]
      [] code = 8 -> [r EXCEPT !.order = TRUE]
      [] code = 9 -> [r EXCEPT !.chaos = TRUE]
      [] code = 10 -> [r EXCEPT !.reverse = TRUE]
      [] code = 11 -> [r EXCEPT !.fallen_ace = TRUE]
      [] code = 12 -> [r EXCEPT !.ascension = TRUE]
      [] code = 13 -> [r EXCEPT !.decension = TRUE]
      [] code = 14 -> [r EXCEPT !.swap = TRUE]
      [] OTHER -> r

(***************************************************************************)
(* Cards                                                                   *)
(***************************************************************************)
NewCard(n, s, w, e, suit) == [values |-> <<n, s, w, e>>, suit |-> suit]

\* The card catalog (Data::get_card): identifier -> Card.  Identifier 0 is "no card".
NoCard == 0
CardCatalog ==
    <<NewCard(5, 3, 7, 2, NoSuit),
      NewCard(10, 1, 4, 6, "Primal"),
      NewCard(1, 10, 6, 4, "Primal"),
      NewCard(8, 8, 2, 3, "Beastman"),
      NewCard(4, 6, 9, 1, NoSuit),
      NewCard(6, 2, 3, 9, "Primal"),
      NewCard(2, 9, 10, 1, NoSuit),
      NewCard(7, 4, 1, 10, "Beastman"),
      NewCard(3, 7, 8, 5, "Primal"),
      NewCard(9, 5, 5, 8, NoSuit),
      NewCard(10, 10, 1, 1, "Scion"),
      NewCard(1, 1, 10, 10, "Primal")>>
CardIds == 1 .. Len(CardCatalog)
GetCard(id) == CardCatalog[id]

\* get_modified_value as it would be with the sum, not the modifier, clamped
GetModifiedValueClampedSum(card, modifiers, direction) ==
    Max(Min(card.values[DirIndex(direction)]
                + (IF card.suit = NoSuit THEN 0 ELSE modifiers[card.suit]), MAX_VALUE), 0)

\* Card::get_modified_value: the rank plus the suit's modifier, the modifier
\* (not the sum) brought into 0..MAX_VALUE by .min(MAX_VALUE).max(0)
GetModifiedValue(card, modifiers, direction) ==
    card.values[DirIndex(direction)]
        + Max(Min(IF card.suit = NoSuit THEN 0 ELSE modifiers[card.suit], MAX_VALUE), 0)

\* is_flipped_by as it would be with non-strict comparisons
IsFlippedByOrEqual(self, other, direction, modifiers, rules) ==
    LET my_value == GetModifiedValue(self, modifiers, direction)
        other_value == GetModifiedValue(other, modifiers, Opposite(direction))
    IN  IF ~rules.reverse
        THEN IF rules.fallen_ace /\ my_value = MAX_VALUE /\ other_value = 1
             THEN TRUE
             ELSE other_value >= my_value
        ELSE IF rules.fallen_ace /\ my_value = 1 /\ other_value = MAX_VALUE
             THEN TRUE
             ELSE other_value <= my_value

\* is_flipped_by as it would be with the two fallen_ace exceptions exchanged
IsFlippedByAceExchanged(self, other, direction, modifiers, rules) ==
    LET my_value == GetModifiedValue(self, modifiers, direction)
        other_value == GetModifiedValue(other, modifiers, Opposite(direction))
    IN  IF ~rules.reverse
        THEN IF rules.fallen_ace /\ my_value = 1 /\ other_value = MAX_VALUE
             THEN TRUE
             ELSE other_value > my_value
        ELSE IF rules.fallen_ace /\ my_value = MAX_VALUE /\ other_value = 1
             THEN TRUE
             ELSE other_value < my_value

\* is_flipped_by as it would be with the same rule taken into account: equal
\* ranks capture as well
IsFlippedByWithSame(self, other, direction, modifiers, rules) ==
    LET my_value == GetModifiedValue(self, modifiers, direction)
        other_value == GetModifiedValue(other, modifiers, Opposite(direction))
    IN  IF rules.same /\ other_value = my_value
        THEN TRUE
        ELSE IF ~rules.reverse
        THEN IF rules.fallen_ace /\ my_value = MAX_VALUE /\ other_value = 1
             THEN TRUE
             ELSE other_value > my_value
        ELSE IF rules.fallen_ace /\ my_value = 1 /\ other_value = MAX_VALUE
             THEN TRUE
             ELSE other_value < my_value

\* Card::is_flipped_by: self lies on the board, other was just played next to it;
\* direction leads from self to other
IsFlippedBy(self, other, direction, modifiers, rules) ==
    LET my_value == GetModifiedValue(self, modifiers, direction)
        other_value == GetModifiedValue(other, modifiers, Opposite(direction))
    IN  IF ~rules.reverse
        THEN IF rules.fallen_ace /\ my_value = MAX_VALUE /\ other_value = 1
             THEN TRUE
             ELSE other_value > my_value
        ELSE IF rules.fallen_ace /\ my_value = 1 /\ other_value = MAX_VALUE
             THEN TRUE
             ELSE other_value < my_value

(***************************************************************************)
(* GameState: one snapshot                                                 *)
(***************************************************************************)
Empty == [card |-> NoCard, owner |-> "Nobody"]

\* GameState::default()
DefaultGameState ==
    [board |-> [c \in Cells |-> Empty],
     hands |-> [p \in Players |-> [s \in Slots |-> NoCard]],
     modifiers |-> [s \in Suits |-> 0],
     actual_hand_sizes |-> [p \in Players |-> 0]]

\* is_game_over as it would be if the match ended with both counters at 0
IsGameOverHandsEmpty(st) == \A p \in Players : st.actual_hand_sizes[p] = 0

\* GameState::is_game_over
IsGameOver(st) == \A c \in Cells : st.board[c] # Empty

OwnedCells(st, p) == {c \in Cells : st.board[c] # Empty /\ st.board[c].owner = p}

\* scores as it would be with the remaining-card counters left out
ScoresBoardOnly(st) ==
    Evaluated([p \in Players |-> Cardinality(OwnedCells(st, p))])

\* GameState::scores: the remaining-card counter plus the cells owned
Scores(st) ==
    Evaluated([p \in Players |-> st.actual_hand_sizes[p] + Cardinality(OwnedCells(st, p))])

\* eval_position as it would be with a finished tie worth zero
EvalPositionTieZero(st, player) ==
    LET scores == Scores(st)
    IN  IF IsGameOver(st)
        THEN IF scores[player] > scores[Other(player)] THEN 100
             ELSE IF scores[player] = scores[Other(player)] THEN 0
             ELSE -100
        ELSE scores[player] - scores[Other(player)]

\* GameState::eval_position
EvalPosition(st, player) ==
    LET scores == Scores(st)
    IN  IF IsGameOver(st)
        THEN IF scores[player] > scores[Other(player)] THEN 100
             ELSE IF scores[player] = scores[Other(player)] THEN -30
             ELSE -100
        ELSE scores[player] - scores[Other(player)]

CellSeq == [i \in 1 .. BoardCells |-> i - 1]
SlotSeq == [i \in 1 .. HandSlots |-> i - 1]

\* get_possible_moves as it would be with the loop over the hand outside the
\* loop over the board
StateGetPossibleMovesSlotMajor(st, player, first_card_only) ==
    LET cells == SelectSeq(CellSeq, LAMBDA c : st.board[c] = Empty)
        occupied == SelectSeq(SlotSeq, LAMBDA s : st.hands[player][s] # NoCard)
        slots == IF first_card_only /\ Len(occupied) > 0 THEN <<occupied[1]>> ELSE occupied
        n == Len(cells)
    IN  [i \in 1 .. (Len(slots) * n) |->
            [player |-> player,
             card_idx |-> slots[((i - 1) \div n) + 1],
             placement |-> cells[((i - 1) % n) + 1]]] \o <<>>

\* get_possible_moves as it would be without the test for an empty cell
StateGetPossibleMovesAnyCell(st, player, first_card_only) ==
    LET cells == CellSeq
        occupied == SelectSeq(SlotSeq, LAMBDA s : st.hands[player][s] # NoCard)
        slots == IF first_card_only /\ Len(occupied) > 0 THEN <<occupied[1]>> ELSE occupied
        n == Len(slots)
    IN  [i \in 1 .. (Len(cells) * n) |->
            [player |-> player,
             card_idx |-> slots[((i - 1) % n) + 1],
             placement |-> cells[((i - 1) \div n) + 1]]] \o <<>>

\* GameState::get_possible_moves: for every empty cell in ascending order, the
\* occupied slots in ascending order, only the first of them if first_card_only
StateGetPossibleMoves(st, player, first_card_only) ==
    LET cells == SelectSeq(CellSeq, LAMBDA c : st.board[c] = Empty)
        occupied == SelectSeq(SlotSeq, LAMBDA s : st.hands[player][s] # NoCard)
        slots == IF first_card_only /\ Len(occupied) > 0 THEN <<occupied[1]>> ELSE occupied
        n == Len(slots)
    IN  \* (appending the empty sequence makes TLC build the list once)
        [i \in 1 .. (Len(cells) * n) |->
            [player |-> player,
             card_idx |-> slots[((i - 1) % n) + 1],
             placement |-> cells[((i - 1) \div n) + 1]]] \o <<>>

(***************************************************************************)
(* Game: the engine                                                        *)
(***************************************************************************)
\* Game::new
NewGame(human_color) ==
    [state_and_history |-> <<DefaultGameState>>,
     rules |-> NoRules,
     humans |-> [p \in Players |-> p = human_color]]

\* adjacency as it would be with the cells numbered on end, the last cell of
\* a row next to the first of the following one
AdjacencyTableWraps ==
    Evaluated([from \in Cells, to \in Cells |->
        CASE to = from + 1 -> "East"
          [] to = from - 1 -> "West"
          [] to = from + 3 -> "South"
          [] to = from - 3 -> "North"
          [] OTHER -> "NoDirection"])

\* Game::adjacency: the direction that leads from cell `from` to cell `to`
AdjacencyTable ==
    Evaluated([from \in Cells, to \in Cells |->
        CASE <<from, to>> \in {<<0, 1>>, <<1, 2>>, <<3, 4>>, <<4, 5>>, <<6, 7>>, <<7, 8>>} -> "East"
          [] <<from, to>> \in {<<1, 0>>, <<2, 1>>, <<4, 3>>, <<5, 4>>, <<7, 6>>, <<8, 7>>} -> "West"
          [] <<from, to>> \in {<<0, 3>>, <<1, 4>>, <<2, 5>>, <<3, 6>>, <<4, 7>>, <<5, 8>>} -> "South"
          [] <<from, to>> \in {<<3, 0>>, <<4, 1>>, <<5, 2>>, <<6, 3>>, <<7, 4>>, <<8, 5>>} -> "North"
          [] OTHER -> "NoDirection"])
Adjacency(from, to) == AdjacencyTable[from, to]

\* Game::current_state
CurrentState(g) == g.state_and_history[Len(g.state_and_history)]

\* Replaces the current snapshot in place (state_and_history.back_mut())
WithCurrentState(g, st) ==
    [g EXCEPT !.state_and_history[Len(g.state_and_history)] = st]

\* Game::set_cards_in_hand
SetCardsInHand(g, player, cards, actual_size) ==
    LET st == CurrentState(g)
        hand == Evaluated([s \in Slots |-> IF s < DeckSize THEN cards[s + 1] ELSE NoCard])
    IN  WithCurrentState(g, [st EXCEPT !.hands[player] = hand,
                                       !.actual_hand_sizes[player] = actual_size])

\* set_cards_for_npc as it would be with the counter set to the number of
\* cards put into the hand
SetCardsForNpcCountsCards(g, player, npc) ==
    LET st == CurrentState(g)
        hand == Evaluated([s \in Slots |->
                    IF s < DeckSize THEN npc.fixed_cards[s + 1]
                    ELSE npc.variable_cards[s - DeckSize + 1]])
        g1 == WithCurrentState(g, [st EXCEPT
                  !.hands[player] = hand,
                  !.actual_hand_sizes[player] =
                      Cardinality({s \in Slots : hand[s] # NoCard})])
    IN  [g1 EXCEPT !.rules = npc.rules]

\* Game::set_cards_for_npc
SetCardsForNpc(g, player, npc) ==
    LET st == CurrentState(g)
        hand == Evaluated([s \in Slots |->
                    IF s < DeckSize THEN npc.fixed_cards[s + 1]
                    ELSE npc.variable_cards[s - DeckSize + 1]])
        g1 == WithCurrentState(g, [st EXCEPT !.hands[player] = hand,
                                             !.actual_hand_sizes[player] = DeckSize])
    IN  [g1 EXCEPT !.rules = npc.rules]

\* get_possible_moves as it would be with the order rule binding both sides
GetPossibleMovesOrderForAll(g, player) ==
    StateGetPossibleMoves(CurrentState(g), player, g.rules.order)

\* Game::get_possible_moves (SearchableGame)
GetPossibleMoves(g, player) ==
    StateGetPossibleMoves(CurrentState(g), player, g.humans[player] /\ g.rules.order)

\* Game::evaluate_current_position_for
EvaluateCurrentPositionFor(g, player) == EvalPosition(CurrentState(g), player)

\* The loop as it would be if a beaten card changed sides, whoever owned it
FlipNeighboursChangesSides(board, placement, played_card, mover, modifiers, rules) ==
    Evaluated([c \in Cells |->
        IF /\ Adjacency(c, placement) # "NoDirection"
           /\ board[c] # Empty
           /\ IsFlippedBy(GetCard(board[c].card), played_card,
                          Adjacency(c, placement), modifiers, rules)
        THEN [board[c] EXCEPT !.owner = Other(@)]
        ELSE board[c]])

\* apply_move, the loop over the cells next to the placement: a neighbour the
\* played card beats is handed to the mover
FlipNeighbours(board, placement, played_card, mover, modifiers, rules) ==
    Evaluated([c \in Cells |->
        IF /\ Adjacency(c, placement) # "NoDirection"
           /\ board[c] # Empty
           /\ IsFlippedBy(GetCard(board[c].card), played_card,
                          Adjacency(c, placement), modifiers, rules)
        THEN [board[c] EXCEPT !.owner = mover]
        ELSE board[c]])

\* The suit rules as they would be with decension raising the modifier too
ApplySuitRulesBothRaise(modifiers, played_card, rules) ==
    LET up == IF rules.ascension /\ played_card.suit # NoSuit
              THEN [modifiers EXCEPT ![played_card.suit] = @ + 1]
              ELSE modifiers
    IN  IF rules.decension /\ played_card.suit # NoSuit
        THEN [up EXCEPT ![played_card.suit] = @ + 1]
        ELSE up

\* apply_move, the ascension and decension rules
ApplySuitRules(modifiers, played_card, rules) ==
    LET up == IF rules.ascension /\ played_card.suit # NoSuit
              THEN [modifiers EXCEPT ![played_card.suit] = @ + 1]
              ELSE modifiers
    IN  IF rules.decension /\ played_card.suit # NoSuit
        THEN [up EXCEPT ![played_card.suit] = @ - 1]
        ELSE up

\* The hand as it would be with the counter left alone
TakeFromHandKeepsCounter(st, mv) ==
    [st EXCEPT !.hands[mv.player][mv.card_idx] = NoCard]

\* The hand as it would be with the played card left in its slot
TakeFromHandKeepsCard(st, mv) ==
    [st EXCEPT !.actual_hand_sizes[mv.player] = @ - 1]

\* apply_move, the hand: the slot is emptied and the counter decremented
TakeFromHand(st, mv) ==
    [st EXCEPT !.hands[mv.player][mv.card_idx] = NoCard,
               !.actual_hand_sizes[mv.player] = @ - 1]

\* apply_move as it would be with the suit rules applied before the loop over
\* the neighbours
ApplyMoveToStateSuitFirst(st, mv, rules) ==
    LET played_id == st.hands[mv.player][mv.card_idx]
        played_card == GetCard(played_id)
        taken == TakeFromHand(st, mv)
        mods == ApplySuitRules(taken.modifiers, played_card, rules)
        flipped == FlipNeighbours(taken.board, mv.placement, played_card, mv.player,
                                  mods, rules)
    IN  [taken EXCEPT !.board = [flipped EXCEPT ![mv.placement] =
                                    [card |-> played_id, owner |-> mv.player]],
                      !.modifiers = mods]

\* Game::apply_move on a snapshot
ApplyMoveToState(st, mv, rules) ==
    LET played_id == st.hands[mv.player][mv.card_idx]
        played_card == GetCard(played_id)
        taken == TakeFromHand(st, mv)
        flipped == FlipNeighbours(taken.board, mv.placement, played_card, mv.player,
                                  taken.modifiers, rules)
        mods == ApplySuitRules(taken.modifiers, played_card, rules)
    IN  [taken EXCEPT !.board = [flipped EXCEPT ![mv.placement] =
                                    [card |-> played_id, owner |-> mv.player]],
                      !.modifiers = mods]

\* apply_move as it would be without the clone: the current snapshot is
\* changed in place and then pushed
ApplyMoveNoClone(g, mv) ==
    LET new_state == ApplyMoveToState(CurrentState(g), mv, g.rules)
    IN  [g EXCEPT !.state_and_history = Append(WithCurrentState(g, new_state).state_and_history,
                                               new_state)]

\* apply_move as it would be with the new snapshot pushed twice
ApplyMovePushesTwice(g, mv) ==
    LET new_state == ApplyMoveToState(CurrentState(g), mv, g.rules)
    IN  [g EXCEPT !.state_and_history = Append(Append(@, new_state), new_state)]

\* Game::apply_move
ApplyMove(g, mv) ==
    [g EXCEPT !.state_and_history = Append(@, ApplyMoveToState(CurrentState(g), mv, g.rules))]

\* pop_back as it would be if the last snapshot could not be removed
PopBackKeepsLast(q) ==
    IF Len(q) <= 1 THEN q ELSE SubSeq(q, 1, Len(q) - 1)

\* VecDeque::pop_back: the last element is removed; nothing happens on an empty deque
PopBack(q) ==
    IF Len(q) = 0 THEN q ELSE SubSeq(q, 1, Len(q) - 1)

RECURSIVE PopBackTimes(_, _)
PopBackTimes(q, n) == IF n = 0 THEN q ELSE PopBackTimes(PopBack(q), n - 1)

\* Game::undo_last_moves: n times pop_back
UndoLastMoves(g, n) ==
    [g EXCEPT !.state_and_history = PopBackTimes(@, n)]

\* win_state as it would be with the two winners exchanged
WinStateExchanged(g) ==
    LET st == CurrentState(g)
        scores == Scores(st)
    IN  IF IsGameOver(st)
        THEN IF scores["Red"] < scores["Blue"] THEN "WinnerRed"
             ELSE IF scores["Red"] = scores["Blue"] THEN "Tie"
             ELSE "WinnerBlue"
        ELSE "NotFinished"

\* Game::win_state
WinState(g) ==
    LET st == CurrentState(g)
        scores == Scores(st)
    IN  IF IsGameOver(st)
        THEN IF scores["Red"] < scores["Blue"] THEN "WinnerBlue"
             ELSE IF scores["Red"] = scores["Blue"] THEN "Tie"
             ELSE "WinnerRed"
        ELSE "NotFinished"

\* truncate_history_and_clone as it would be as a plain clone
TruncateHistoryAndCloneKeepsHistory(g) ==
    [state_and_history |-> g.state_and_history, rules |-> g.rules, humans |-> g.humans]

\* Game::truncate_history_and_clone
TruncateHistoryAndClone(g) ==
    [state_and_history |-> <<CurrentState(g)>>, rules |-> g.rules, humans |-> g.humans]

(***************************************************************************)
(* Search: alpha_beta                                                      *)
(***************************************************************************)
\* The match as it would be with an equal value ignored
UpdateBestKeepsFirst(best, possible_move, move_value) ==
    IF move_value > best.value
    THEN [value |-> move_value, moves |-> <<possible_move>>]
    ELSE best

\* alpha_beta, the match on move_value.partial_cmp(&best_value): a greater value
\* replaces the list, an equal one is added to it
UpdateBest(best, possible_move, move_value) ==
    IF move_value > best.value
    THEN [value |-> move_value, moves |-> <<possible_move>>]
    ELSE IF move_value = best.value
    THEN [best EXCEPT !.moves = Append(@, possible_move)]
    ELSE best

\* The test as it would be with the upper bound negated
CutoffNegatedBeta(alpha, beta) == alpha >= -beta

\* alpha_beta, the test that ends the loop over the siblings
Cutoff(alpha, beta) == alpha >= beta

RECURSIVE AlphaBeta(_, _, _, _, _)
RECURSIVE AlphaBetaLoop(_, _, _, _, _, _, _, _)

\* The loop as it would be with the test that ends it placed before the undo
AlphaBetaLoopBreaksBeforeUndo(g, depth, alpha, beta, player, possible_moves, i, best) ==
    IF i > Len(possible_moves)
    THEN [moves |-> best.moves, value |-> best.value, game |-> g]
    ELSE LET possible_move == possible_moves[i]
             sub == AlphaBeta(ApplyMove(g, possible_move), depth - 1, -beta, -alpha,
                              Other(player))
             move_value == -sub.value
             best1 == UpdateBest(best, possible_move, move_value)
             alpha1 == Max(alpha, best1.value)
         IN  IF Cutoff(alpha1, beta)
             THEN [moves |-> best1.moves, value |-> best1.value, game |-> sub.game]
             ELSE AlphaBetaLoop(UndoLastMoves(sub.game, 1), depth, alpha1, beta, player,
                                possible_moves, i + 1, best1)

\* alpha_beta, the loop over possible_moves from index i on; g is the engine,
\* which every iteration leaves as it found it (apply_move ... undo_last_moves(1))
AlphaBetaLoop(g, depth, alpha, beta, player, possible_moves, i, best) ==
    IF i > Len(possible_moves)
    THEN [moves |-> best.moves, value |-> best.value, game |-> g]
    ELSE LET possible_move == possible_moves[i]
             sub == AlphaBeta(ApplyMove(g, possible_move), depth - 1, -beta, -alpha,
                              Other(player))
             move_value == -sub.value
             g1 == UndoLastMoves(sub.game, 1)
             best1 == UpdateBest(best, possible_move, move_value)
             alpha1 == Max(alpha, best1.value)
         IN  IF Cutoff(alpha1, beta)
             THEN [moves |-> best1.moves, value |-> best1.value, game |-> g1]
             ELSE AlphaBetaLoop(g1, depth, alpha1, beta, player, possible_moves, i + 1, best1)

\* alpha_beta: the tied best moves, their value, and the engine as it is left
AlphaBeta(g, depth, alpha, beta, player) ==
    IF depth = 0
    THEN [moves |-> <<>>, value |-> EvaluateCurrentPositionFor(g, player), game |-> g]
    ELSE LET possible_moves == GetPossibleMoves(g, player)
         IN  IF Len(possible_moves) = 0
             THEN [moves |-> <<>>, value |-> EvaluateCurrentPositionFor(g, player),
                   game |-> g]
             ELSE AlphaBetaLoop(g, depth, alpha, beta, player, possible_moves, 1,
                                [value |-> NEG_INFINITY, moves |-> <<>>])

\* Phase 1 as it would be with a search depth of 2
Phase1DepthTwo(g, player) ==
    AlphaBeta(TruncateHistoryAndClone(g), 2, NEG_INFINITY, INFINITY, player)

\* get_best_move_for_player, phase 1: alpha_beta at the root on a truncated clone
Phase1(g, player) ==
    AlphaBeta(TruncateHistoryAndClone(g), SearchDepth, NEG_INFINITY, INFINITY, player)

(***************************************************************************)
(* Search: the Monte Carlo phase                                           *)
(***************************************************************************)
\* Option<T>: None is the empty sequence, Some(x) the sequence <<x>>
None == <<>>
Some(x) == <<x>>

\* WinState::Winner(player)
Winner(player) == IF player = "Blue" THEN "WinnerBlue" ELSE "WinnerRed"

RECURSIVE SimulateFrom(_, _, _, _)

\* The loop as it would be with undo_last_moves(1) after it
SimulateFromUndoesOne(g, player, current, moves_taken) ==
    LET ws == WinState(g)
        possible_moves == GetPossibleMoves(g, current)
    IN  IF ws = "NotFinished"
        THEN IF Len(possible_moves) = 0
             THEN {[result |-> "Panic", moves_taken |-> moves_taken, game |-> g]}
             ELSE UNION {SimulateFrom(ApplyMove(g, possible_moves[i]), player,
                                      Other(current), moves_taken + 1) :
                            i \in 1 .. Len(possible_moves)}
        ELSE {[result |-> IF ws = "Tie" THEN "Tie"
                          ELSE IF ws = Winner(player) THEN "PlayerWin"
                          ELSE "OpponentWin",
               moves_taken |-> moves_taken,
               game |-> UndoLastMoves(g, Min(moves_taken, 1))]}

\* simulate_game_once, the loop from a state moves_taken moves into the
\* playout: every result a sequence of random choices can end with, each with
\* the number of moves applied and the engine as undo_last_moves(moves_taken)
\* leaves it.  choose(rng).unwrap() on an empty list panics: the playout ends
\* there and the engine stays as it is.
SimulateFrom(g, player, current, moves_taken) ==
    LET ws == WinState(g)
        possible_moves == GetPossibleMoves(g, current)
    IN  IF ws = "NotFinished"
        THEN IF Len(possible_moves) = 0
             THEN {[result |-> "Panic", moves_taken |-> moves_taken, game |-> g]}
             ELSE UNION {SimulateFrom(ApplyMove(g, possible_moves[i]), player,
                                      Other(current), moves_taken + 1) :
                            i \in 1 .. Len(possible_moves)}
        ELSE {[result |-> IF ws = "Tie" THEN "Tie"
                          ELSE IF ws = Winner(player) THEN "PlayerWin"
                          ELSE "OpponentWin",
               moves_taken |-> moves_taken,
               game |-> UndoLastMoves(g, moves_taken)]}

\* simulate_game_once: player has just moved, the other side moves first
SimulateGameOnce(g, player) == SimulateFrom(g, player, Other(player), 0)

\* The ratio as it would be with a tie counted as a win as well
WinRatioTieAlsoWin(wins, ties, iterations) ==
    [num |-> 10 * (wins + ties) + 3 * ties, den |-> 10 * iterations]

\* monte_carlo, the value returned: (wins + ties * 0.3) / iterations, kept as
\* the fraction num / den
WinRatio(wins, ties, iterations) ==
    [num |-> 10 * wins + 3 * ties, den |-> 10 * iterations]

\* f64::NEG_INFINITY as a ratio
NegInfinityRatio == [num |-> NEG_INFINITY, den |-> 1]
RatioGreater(a, b) == a.num * b.den > b.num * a.den

\* monte_carlo, the loop: the counts every sequence of playouts can end with
\* (a playout that panics ends the call: no counts are returned)
RECURSIVE MonteCarloLoop(_, _, _, _, _)
MonteCarloLoop(g, player, remaining, wins, ties) ==
    IF remaining = 0
    THEN {[wins |-> wins, ties |-> ties]}
    ELSE UNION {MonteCarloLoop(o.game, player, remaining - 1,
                               wins + (IF o.result = "PlayerWin" THEN 1 ELSE 0),
                               ties + (IF o.result = "Tie" THEN 1 ELSE 0)) :
                   o \in {x \in SimulateGameOnce(g, player) : x.result # "Panic"}}

\* monte_carlo: the ratios the call can return
MonteCarlo(g, player, iterations) ==
    {WinRatio(c.wins, c.ties, iterations) : c \in MonteCarloLoop(g, player, iterations, 0, 0)}

\* no_move_selection
NoMoveSelection == [mv |-> None, win_ratio |-> NegInfinityRatio]

\* combine_move_selection as it would be with the ratios never compared
CombineMoveSelectionKeepsFirst(sel1, sel2) ==
    IF sel1.mv = None THEN sel2
    ELSE sel1

\* combine_move_selection as it would be with equal ratios keeping the left
CombineMoveSelectionTieKeepsLeft(sel1, sel2) ==
    IF sel1.mv = None THEN sel2
    ELSE IF sel2.mv = None THEN sel1
    ELSE IF ~RatioGreater(sel2.win_ratio, sel1.win_ratio) THEN sel1
    ELSE sel2

\* combine_move_selection
CombineMoveSelection(sel1, sel2) ==
    IF sel1.mv = None THEN sel2
    ELSE IF sel2.mv = None THEN sel1
    ELSE IF RatioGreater(sel1.win_ratio, sel2.win_ratio) THEN sel1
    ELSE sel2

\* One tied candidate before its worker ran: its place in best_moves, the move
\* and the truncated clone it was applied to
Task(clone, best_moves, i) ==
    [kind |-> "task", index |-> i, mv |-> best_moves[i],
     game |-> ApplyMove(TruncateHistoryAndClone(clone), best_moves[i])]
\* A partial result of the reduction
Acc(sel) == [kind |-> "acc", sel |-> sel]

\* The closure mapped over the candidates: the selections a worker can return
MapTask(task, player, iterations) ==
    {[mv |-> Some(task.mv), win_ratio |-> ratio] :
        ratio \in MonteCarlo(task.game, player, iterations)}

Finished(player, best_moves, score, iterations, win_ratios, playouts, mv, win_ratio) ==
    [pc |-> "done", player |-> player, best_moves |-> best_moves, score |-> score,
     iterations |-> iterations, items |-> <<>>, win_ratios |-> win_ratios,
     playouts |-> playouts,
     result |-> [mv |-> mv, score |-> score, win_ratio |-> win_ratio]]

\* The match as it would be with a single best move treated as none
MatchBestMovesOneIsNone(clone, player, best_moves, score, iterations) ==
    IF Len(best_moves) <= 1
    THEN Finished(player, best_moves, score, 0, <<>>, 0, None, None)
    ELSE [pc |-> "monte_carlo", player |-> player, best_moves |-> best_moves,
          score |-> score, iterations |-> iterations,
          items |-> [i \in 1 .. Len(best_moves) |-> Task(clone, best_moves, i)] \o <<>>,
          win_ratios |-> [i \in 1 .. Len(best_moves) |-> None] \o <<>>,
          playouts |-> 0,
          result |-> [mv |-> None, score |-> score, win_ratio |-> None]]

\* The match as it would be with the Monte Carlo phase entered for one move too
MatchBestMovesAlwaysSimulates(clone, player, best_moves, score, iterations) ==
    IF Len(best_moves) = 0
    THEN Finished(player, best_moves, score, 0, <<>>, 0, None, None)
    ELSE [pc |-> "monte_carlo", player |-> player, best_moves |-> best_moves,
          score |-> score, iterations |-> iterations,
          items |-> [i \in 1 .. Len(best_moves) |-> Task(clone, best_moves, i)] \o <<>>,
          win_ratios |-> [i \in 1 .. Len(best_moves) |-> None] \o <<>>,
          playouts |-> 0,
          result |-> [mv |-> None, score |-> score, win_ratio |-> None]]

\* get_best_move_for_player, the match on best_moves.len(): no move, the only
\* move, or one truncated clone per tied move handed to the workers
MatchBestMoves(clone, player, best_moves, score, iterations) ==
    IF Len(best_moves) = 0
    THEN Finished(player, best_moves, score, 0, <<>>, 0, None, None)
    ELSE IF Len(best_moves) = 1
    THEN Finished(player, best_moves, score, 0, <<>>, 0, Some(best_moves[1]), None)
    ELSE [pc |-> "monte_carlo", player |-> player, best_moves |-> best_moves,
          score |-> score, iterations |-> iterations,
          items |-> [i \in 1 .. Len(best_moves) |-> Task(clone, best_moves, i)] \o <<>>,
          win_ratios |-> [i \in 1 .. Len(best_moves) |-> None] \o <<>>,
          playouts |-> 0,
          result |-> [mv |-> None, score |-> score, win_ratio |-> None]]

(***************************************************************************)
(* A match                                                                 *)
(***************************************************************************)
\* The saved deck of the human player (SavedDecks::get_deck): five card identifiers
BlueDeck == <<1, 2, 3, 4, 5>>

\* load_tt_npc_data: an NPC's fixed cards, variable cards (0: none) and two rule codes
Npc(fixed_cards, variable_cards, rule0, rule1) ==
    [fixed_cards |-> fixed_cards, variable_cards |-> variable_cards,
     rules |-> AddRuleFromCsv(AddRuleFromCsv(NoRules, rule0), rule1)]

NoVariableCards == <<0, 0, 0, 0, 0>>
Npcs ==
    {Npc(<<6, 7, 8, 9, 10>>, NoVariableCards, 0, 0),
     Npc(<<6, 7, 8, 9, 10>>, NoVariableCards, 10, 0),
     Npc(<<6, 7, 8, 9, 10>>, NoVariableCards, 11, 2),
     Npc(<<6, 7, 8, 9, 10>>, NoVariableCards, 10, 11),
     Npc(<<6, 7, 8, 9, 10>>, NoVariableCards, 12, 0),
     Npc(<<6, 7, 8, 9, 10>>, NoVariableCards, 13, 0),
     Npc(<<6, 7, 8, 9, 10>>, NoVariableCards, 12, 13),
     Npc(<<6, 7, 8, 9, 10>>, NoVariableCards, 8, 4),
     Npc(<<6, 7, 8, 9, 10>>, NoVariableCards, 6, 9),
     Npc(<<6, 7, 8, 9, 0>>, <<11, 12, 0, 0, 0>>, 12, 14)}

\* The cells the two sides play on, in this order, before the explored part of
\* the match begins; each side plays the first card it is offered for the cell
OpeningCells == <<4, 0, 8, 2, 6, 1, 7, 3, 5>>
OpeningLen == BoardCells - MaxEmpty

\* vs_npc: the engine as set up before the first move
InitialGame(npc) ==
    SetCardsForNpc(SetCardsInHand(NewGame("Blue"), "Blue", BlueDeck, DeckSize), "Red", npc)

\* vs_npc, the loop: k moves applied for alternating sides, starting with player
RECURSIVE PlayOpening(_, _, _)
PlayOpening(g, player, k) ==
    IF k = 0 THEN g
    ELSE LET cell == OpeningCells[Len(g.state_and_history)]
             offered == SelectSeq(GetPossibleMoves(g, player),
                                  LAMBDA m : m.placement = cell)
         IN  PlayOpening(ApplyMove(g, offered[1]), Other(player), k - 1)

NoProbe == [kind |-> "none", done |-> FALSE]

\* No call of get_best_move_for_player is under way
NoSearch ==
    [pc |-> "idle", player |-> "Nobody", best_moves |-> <<>>, score |-> 0,
     iterations |-> 0, items |-> <<>>, win_ratios |-> <<>>, playouts |-> 0,
     result |-> [mv |-> <<>>, score |-> 0, win_ratio |-> <<>>]]

Init ==
    \E npc \in Npcs, first \in Players :
        /\ game = PlayOpening(InitialGame(npc), first, OpeningLen)
        /\ current_player = IF OpeningLen % 2 = 0 THEN first ELSE Other(first)
        /\ probe = NoProbe
        /\ search = NoSearch

\* One turn: a move enumerated for the side to move is applied and the other
\* side is to move (vs_npc; alpha_beta and simulate_game_once do the same)
Play ==
    /\ search.pc \in {"idle", "done"}
    /\ WinState(game) = "NotFinished"
    /\ \E i \in 1 .. Len(GetPossibleMoves(game, current_player)) :
           game' = ApplyMove(game, GetPossibleMoves(game, current_player)[i])
    /\ current_player' = Other(current_player)
    /\ search' = NoSearch
    /\ UNCHANGED probe

\* The search backtracks: undo_last_moves(n) for moves it applied itself
Undo ==
    /\ \E n \in 1 .. (Len(game.state_and_history) - (OpeningLen + 1)) :
           /\ game' = UndoLastMoves(game, n)
           /\ current_player' = IF n % 2 = 0 THEN current_player ELSE Other(current_player)
    /\ UNCHANGED <<probe, search>>

Next == Play \/ Undo

Spec == Init /\ [][Next]_vars

(***************************************************************************)
(* The pure functions of Card on inputs drawn from bounded sets            *)
(***************************************************************************)
ProbeModifiers ==
    {[s \in Suits |-> IF s = x THEN m ELSE 0] :
        x \in Suits, m \in (0 - MaxProbeMod) .. MaxProbeMod}

ProbeRules ==
    {[NoRules EXCEPT !.reverse = rev, !.fallen_ace = fa] : rev \in BOOLEAN, fa \in BOOLEAN}

\* The inputs of one call: of get_modified_value, or of is_flipped_by
RankInputs ==
    {[kind |-> "rank", done |-> FALSE, card |-> GetCard(id), modifiers |-> modifiers,
      direction |-> direction, value |-> 0] :
        id \in CardIds, modifiers \in ProbeModifiers, direction \in Directions}
FlipInputs ==
    {[kind |-> "flip", done |-> FALSE, self |-> GetCard(self), other |-> GetCard(other),
      modifiers |-> modifiers, direction |-> direction, rules |-> rules,
      flipped |-> FALSE] :
        self \in CardIds, other \in CardIds, modifiers \in ProbeModifiers,
        direction \in Directions, rules \in ProbeRules}

InitCard ==
    /\ game = NewGame("Blue")
    /\ current_player = "Blue"
    /\ probe \in RankInputs \cup FlipInputs
    /\ search = NoSearch

\* The call of Card::get_modified_value
ProbeRank ==
    /\ probe.kind = "rank" /\ ~probe.done
    /\ probe' = [probe EXCEPT !.done = TRUE,
                              !.value = GetModifiedValue(probe.card, probe.modifiers,
                                                         probe.direction)]
    /\ UNCHANGED <<game, current_player, search>>

\* The call of Card::is_flipped_by
ProbeFlip ==
    /\ probe.kind = "flip" /\ ~probe.done
    /\ probe' = [probe EXCEPT !.done = TRUE,
                              !.flipped = IsFlippedBy(probe.self, probe.other,
                                                      probe.direction, probe.modifiers,
                                                      probe.rules)]
    /\ UNCHANGED <<game, current_player, search>>

NextCard == ProbeRank \/ ProbeFlip

SpecCard == InitCard /\ [][NextCard]_vars

(***************************************************************************)
(* get_best_move_for_player, step by step                                  *)
(***************************************************************************)
SearchOpeningLen == BoardCells - MaxSearchEmpty

InitSearch ==
    \E npc \in Npcs, first \in Players :
        /\ game = PlayOpening(InitialGame(npc), first, SearchOpeningLen)
        /\ current_player = IF SearchOpeningLen % 2 = 0 THEN first ELSE Other(first)
        /\ probe = NoProbe
        /\ search = NoSearch

\* get_best_move_for_player up to the parallel region: alpha_beta on a
\* truncated clone, then the match on the number of tied moves
StartSearch ==
    /\ search.pc = "idle"
    /\ \E iterations \in 1 .. MaxIterations :
           LET r == Phase1(game, current_player)
           IN  /\ Len(r.moves) <= MaxCandidates
               /\ search' = MatchBestMoves(r.game, current_player, r.moves, r.value,
                                           iterations)
    /\ UNCHANGED <<game, current_player, probe>>

\* The items i .. j of the reduction replaced by one partial result
Reduced(items, i, j, sel) ==
    SubSeq(items, 1, i - 1) \o <<Acc(sel)>> \o SubSeq(items, j + 1, Len(items))

\* A worker takes a candidate with no partial result to its left: it runs the
\* playouts and combines the selection with no_move_selection()
FoldFirst ==
    /\ search.pc = "monte_carlo"
    /\ \E i \in 1 .. Len(search.items) :
           /\ search.items[i].kind = "task"
           /\ \E sel \in MapTask(search.items[i], search.player, search.iterations) :
                  search' = [search EXCEPT
                      !.items = Reduced(@, i, i, CombineMoveSelection(NoMoveSelection, sel)),
                      !.win_ratios[search.items[i].index] = Some(sel.win_ratio),
                      !.playouts = @ + search.iterations]
    /\ UNCHANGED <<game, current_player, probe>>

\* A worker goes on to the candidate right of its partial result
FoldNext ==
    /\ search.pc = "monte_carlo"
    /\ \E i \in 1 .. (Len(search.items) - 1) :
           /\ search.items[i].kind = "acc"
           /\ search.items[i + 1].kind = "task"
           /\ \E sel \in MapTask(search.items[i + 1], search.player, search.iterations) :
                  search' = [search EXCEPT
                      !.items = Reduced(@, i, i + 1,
                                        CombineMoveSelection(search.items[i].sel, sel)),
                      !.win_ratios[search.items[i + 1].index] = Some(sel.win_ratio),
                      !.playouts = @ + search.iterations]
    /\ UNCHANGED <<game, current_player, probe>>

\* Two neighbouring partial results are combined
Join ==
    /\ search.pc = "monte_carlo"
    /\ \E i \in 1 .. (Len(search.items) - 1) :
           /\ search.items[i].kind = "acc"
           /\ search.items[i + 1].kind = "acc"
           /\ search' = [search EXCEPT
                  !.items = Reduced(@, i, i + 1,
                                    CombineMoveSelection(search.items[i].sel,
                                                         search.items[i + 1].sel))]
    /\ UNCHANGED <<game, current_player, probe>>

\* A partial result is combined with the result of a worker that was handed
\* no candidate, which is no_move_selection(), on either side
JoinEmpty ==
    /\ search.pc = "monte_carlo"
    /\ \E i \in 1 .. Len(search.items), on_the_left \in BOOLEAN :
           /\ search.items[i].kind = "acc"
           /\ search' = [search EXCEPT
                  !.items = Reduced(@, i, i,
                      IF on_the_left
                      THEN CombineMoveSelection(NoMoveSelection, search.items[i].sel)
                      ELSE CombineMoveSelection(search.items[i].sel, NoMoveSelection))]
    /\ UNCHANGED <<game, current_player, probe>>

\* The reduction is complete: (best_best_move.mv, (score, Some(win_ratio)))
FinishSearch ==
    /\ search.pc = "monte_carlo"
    /\ Len(search.items) = 1
    /\ search.items[1].kind = "acc"
    /\ search' = Finished(search.player, search.best_moves, search.score,
                          search.iterations, search.win_ratios, search.playouts,
                          search.items[1].sel.mv, Some(search.items[1].sel.win_ratio))
    /\ UNCHANGED <<game, current_player, probe>>

NextSearch ==
    Play \/ StartSearch \/ FoldFirst \/ FoldNext \/ Join \/ JoinEmpty \/ FinishSearch

SpecSearch == InitSearch /\ [][NextSearch]_vars

(***************************************************************************)
(* The parallel region, move by move                                       *)
(***************************************************************************)
WorkerOpeningLen == BoardCells - MaxWorkerEmpty

InitWorkers ==
    \E npc \in Npcs, first \in Players :
        /\ game = PlayOpening(InitialGame(npc), first, WorkerOpeningLen)
        /\ current_player = IF WorkerOpeningLen % 2 = 0 THEN first ELSE Other(first)
        /\ probe = NoProbe
        /\ search = NoSearch

\* The closure as it would be if every worker were handed the first engine
WorkerOnFirstEngine(i, mv, iterations, player) ==
    [kind |-> "worker", index |-> i, mv |-> mv, engine |-> 1,
     remaining |-> iterations, wins |-> 0, ties |-> 0,
     moves_taken |-> 0, current |-> Other(player), returned |-> FALSE]

\* The closure mapped over the candidates, entering monte_carlo and its first
\* simulate_game_once: the engine it was handed (its place among the engines
\* made for the candidates), the playouts left, the counts, and the playout's
\* moves_taken and current_player
Worker(i, mv, iterations, player) ==
    [kind |-> "worker", index |-> i, mv |-> mv, engine |-> i,
     remaining |-> iterations, wins |-> 0, ties |-> 0,
     moves_taken |-> 0, current |-> Other(player), returned |-> FALSE]

\* get_best_move_for_player with several tied moves: one truncated clone with
\* the move applied per candidate, collected, then one worker per candidate
FanOut(clone, player, best_moves, score, iterations) ==
    [pc |-> "workers", player |-> player, best_moves |-> best_moves, score |-> score,
     iterations |-> iterations,
     items |-> [i \in 1 .. Len(best_moves) |->
                   Worker(i, best_moves[i], iterations, player)] \o <<>>,
     engines |-> [i \in 1 .. Len(best_moves) |->
                     ApplyMove(TruncateHistoryAndClone(clone), best_moves[i])] \o <<>>,
     win_ratios |-> [i \in 1 .. Len(best_moves) |-> None] \o <<>>,
     playouts |-> 0,
     result |-> [mv |-> None, score |-> score, win_ratio |-> None]]

\* get_best_move_for_player up to the parallel region
StartWorkers ==
    /\ search.pc = "idle"
    /\ \E iterations \in 1 .. MaxIterations :
           LET r == Phase1(game, current_player)
           IN  /\ Len(r.moves) <= MaxWorkers
               /\ search' = IF Len(r.moves) <= 1
                            THEN MatchBestMoves(r.game, current_player, r.moves, r.value,
                                                iterations)
                            ELSE FanOut(r.game, current_player, r.moves, r.value,
                                        iterations)
    /\ UNCHANGED <<game, current_player, probe>>

\* simulate_game_once, one pass of the loop in one worker: the match is not
\* finished, a move chosen at random is applied to the worker's engine
PlayoutStep ==
    /\ search.pc = "workers"
    /\ \E i \in 1 .. Len(search.items) :
           LET w == search.items[i]
               engine == search.engines[w.engine]
               possible_moves == GetPossibleMoves(engine, w.current)
           IN  /\ w.remaining > 0
               /\ WinState(engine) = "NotFinished"
               /\ \E j \in 1 .. Len(possible_moves) :
                      search' = [search EXCEPT
                          !.engines[w.engine] = ApplyMove(engine, possible_moves[j]),
                          !.items[i].moves_taken = @ + 1,
                          !.items[i].current = Other(@)]
    /\ UNCHANGED <<game, current_player, probe>>

\* simulate_game_once, the end of the loop in one worker: the result is
\* counted by monte_carlo and the moves of the playout are undone
PlayoutEnd ==
    /\ search.pc = "workers"
    /\ \E i \in 1 .. Len(search.items) :
           LET w == search.items[i]
               engine == search.engines[w.engine]
               ws == WinState(engine)
           IN  /\ w.remaining > 0
               /\ ws # "NotFinished"
               /\ search' = [search EXCEPT
                      !.engines[w.engine] = UndoLastMoves(engine, w.moves_taken),
                      !.items[i] = [w EXCEPT
                          !.remaining = @ - 1,
                          !.wins = @ + (IF ws = Winner(search.player) THEN 1 ELSE 0),
                          !.ties = @ + (IF ws = "Tie" THEN 1 ELSE 0),
                          !.moves_taken = 0,
                          !.current = Other(search.player)],
                      !.playouts = @ + 1]
    /\ UNCHANGED <<game, current_player, probe>>

\* monte_carlo returns in one worker: the ratio of its candidate
WorkerReturn ==
    /\ search.pc = "workers"
    /\ \E i \in 1 .. Len(search.items) :
           LET w == search.items[i]
           IN  /\ w.remaining = 0
               /\ ~w.returned
               /\ search' = [search EXCEPT
                      !.items[i].returned = TRUE,
                      !.win_ratios[w.index] =
                          Some(WinRatio(w.wins, w.ties, search.iterations))]
    /\ UNCHANGED <<game, current_player, probe>>

\* The selections of the workers combined from left to right (the orders and
\* groupings the reduction can take are those of Join and JoinEmpty)
RECURSIVE ReduceInOrder(_, _, _, _)
ReduceInOrder(best_moves, win_ratios, i, sel) ==
    IF i > Len(best_moves) THEN sel
    ELSE ReduceInOrder(best_moves, win_ratios, i + 1,
                       CombineMoveSelection(sel, [mv |-> Some(best_moves[i]),
                                                  win_ratio |-> win_ratios[i][1]]))

\* Every worker has returned: the reduction's result is returned
FinishWorkers ==
    /\ search.pc = "workers"
    /\ \A i \in 1 .. Len(search.items) : search.items[i].returned
    /\ LET sel == ReduceInOrder(search.best_moves, search.win_ratios, 1, NoMoveSelection)
       IN  search' = Finished(search.player, search.best_moves, search.score,
                              search.iterations, search.win_ratios, search.playouts,
                              sel.mv, Some(sel.win_ratio))
    /\ UNCHANGED <<game, current_player, probe>>

NextWorkers ==
    Play \/ StartWorkers \/ PlayoutStep \/ PlayoutEnd \/ WorkerReturn \/ FinishWorkers

SpecWorkers == InitWorkers /\ [][NextWorkers]_vars

(***************************************************************************)
(* Reference definitions the claims are stated with                        *)
(***************************************************************************)
SetMax(S) == CHOOSE x \in S : \A y \in S : y <= x
SetMin(S) == CHOOSE x \in S : \A y \in S : x <= y

\* The depth-bounded negamax value without any cutoff: the static evaluation
\* for the side to move at depth 0 or when it has no move
RECURSIVE Negamax(_, _, _)
Negamax(g, depth, player) ==
    LET possible_moves == GetPossibleMoves(g, player)
    IN  IF depth = 0 \/ Len(possible_moves) = 0
        THEN EvaluateCurrentPositionFor(g, player)
        ELSE SetMax({-Negamax(ApplyMove(g, possible_moves[i]), depth - 1, Other(player)) :
                        i \in 1 .. Len(possible_moves)})

\* The exact value, for player, of playing mv in g
ExactMoveValue(g, mv, player) ==
    -Negamax(ApplyMove(g, mv), SearchDepth - 1, Other(player))

\* Brute-force minimax over all move sequences: root maximises and the other
\* side minimises the evaluation for root at the end of each sequence
RECURSIVE Minimax(_, _, _)
Minimax(g, to_move, root) ==
    LET possible_moves == GetPossibleMoves(g, to_move)
        below == {Minimax(ApplyMove(g, possible_moves[i]), Other(to_move), root) :
                     i \in 1 .. Len(possible_moves)}
    IN  IF Len(possible_moves) = 0
        THEN EvaluateCurrentPositionFor(g, root)
        ELSE IF to_move = root THEN SetMax(below) ELSE SetMin(below)

SeqToSet(q) == {q[i] : i \in 1 .. Len(q)}

\* The geometry of the board: rows of BoardWidth cells, numbered row by row
BoardWidth == 3
Row(c) == c \div BoardWidth
Col(c) == c % BoardWidth
OrthogonalNeighbours(t) ==
    {n \in Cells : \/ Row(n) = Row(t) /\ (Col(n) - Col(t)) \in {-1, 1}
                   \/ Col(n) = Col(t) /\ (Row(n) - Row(t)) \in {-1, 1}}
\* The side of the card on cell `from` that touches the neighbouring cell `to`
Facing(from, to) ==
    IF Row(from) = Row(to)
    THEN IF Col(to) > Col(from) THEN "East" ELSE "West"
    ELSE IF Row(to) > Row(from) THEN "South" ELSE "North"

History == game.state_and_history
Current == CurrentState(game)
\* The indices k of the snapshots a move produced (from snapshot k - 1)
MoveIndices == 2 .. Len(History)
\* The moves applied since the explored part of the match began
PlayedIndices == (OpeningLen + 2) .. Len(History)
\* The cell, the mover and the card of the move that led from prev to next
PlacedCell(prev, next) ==
    CHOOSE c \in Cells : prev.board[c] = Empty /\ next.board[c] # Empty
Mover(prev, next) == next.board[PlacedCell(prev, next)].owner
PlayedCard(prev, next) == GetCard(next.board[PlacedCell(prev, next)].card)
\* The number of cards p has played onto the board
CardsPlayedBy(p) ==
    Cardinality({k \in MoveIndices : Mover(History[k - 1], History[k]) = p})
\* The effective ranks R (played card) and S (neighbour n) that meet when the
\* move from prev to next is made
RankPlayed(prev, next, n) ==
    GetModifiedValue(PlayedCard(prev, next), prev.modifiers,
                     Facing(PlacedCell(prev, next), n))
RankNeighbour(prev, next, n) ==
    GetModifiedValue(GetCard(prev.board[n].card), prev.modifiers,
                     Facing(n, PlacedCell(prev, next)))
OccupiedNeighbours(prev, next) ==
    {n \in OrthogonalNeighbours(PlacedCell(prev, next)) : prev.board[n] # Empty}
Flipped(prev, next, n) ==
    prev.board[n].owner # Mover(prev, next) /\ next.board[n].owner = Mover(prev, next)

(***************************************************************************)
(* The claims                                                              *)
(***************************************************************************)

\* C1 (as stated): in every reachable state, for each player, the number of
\* board cells the player owns plus the player's remaining-card counter is 5.
C1_OwnedPlusCounterIsFive ==
    \A p \in Players :
        Cardinality(OwnedCells(Current, p)) + Current.actual_hand_sizes[p] = DeckSize

\* C1 (amended): in every reachable state, for each player, the number of cards
\* the player has played onto the board plus the player's remaining-card
\* counter is 5 (the cells a player owns change with every flip).
C1_PlayedPlusCounterIsFive ==
    \A p \in Players : CardsPlayedBy(p) + Current.actual_hand_sizes[p] = DeckSize

\* C1 witness: moves were applied and flips have left a player owning a number
\* of cells other than the number of cards played.
C1_Witness ==
    /\ PlayedIndices # {}
    /\ \E p \in Players : Cardinality(OwnedCells(Current, p)) # CardsPlayedBy(p)

\* C2: every move in the list phase 1 returns has an exact (unpruned) negamax
\* value equal to the returned best score.
C2_TiedMovesAreBest ==
    LET r == Phase1(game, current_player)
    IN  \A mv \in SeqToSet(r.moves) : ExactMoveValue(game, mv, current_player) = r.value

\* C3: the score alpha_beta returns equals the brute-force minimax score in
\* which the root player maximises and the opponent minimises the evaluation
\* for the root player at the end of each move sequence.
C3_AlphaBetaIsMinimax ==
    Phase1(game, current_player).value = Minimax(game, current_player, current_player)

\* C4: in every reachable state and for each player p, the evaluation for p is
\* the negation of the evaluation for the other player.
C4_ZeroSum ==
    \A p \in Players :
        EvaluateCurrentPositionFor(game, p) = -EvaluateCurrentPositionFor(game, Other(p))

\* C5: every move whose exact negamax value is the best value of the position
\* is in the list phase 1 returns.
C5_AllBestMovesReturned ==
    LET r == Phase1(game, current_player)
        exact == {<<mv, ExactMoveValue(game, mv, current_player)>> :
                     mv \in SeqToSet(GetPossibleMoves(game, current_player))}
    IN  \A e \in exact :
            (\A o \in exact : o[2] <= e[2]) => e[1] \in SeqToSet(r.moves)

\* C5 witness: a position with two or more moves of the best exact value, all of
\* them returned, in which some other move is worse.
C5_Witness ==
    LET r == Phase1(game, current_player)
        exact == {<<mv, ExactMoveValue(game, mv, current_player)>> :
                     mv \in SeqToSet(GetPossibleMoves(game, current_player))}
        best == {e \in exact : \A o \in exact : o[2] <= e[2]}
    IN  /\ Cardinality(best) >= 2
        /\ Cardinality(best) < Cardinality(exact)
        /\ \A e \in best : e[1] \in SeqToSet(r.moves)

\* C6: for every move applied and every occupied orthogonal neighbour of the
\* target cell, with R the played card's effective rank facing the neighbour and
\* S the neighbour's effective rank facing the target: with fallen_ace off an
\* opponent-owned neighbour becomes the mover's iff R > S (reverse off), iff
\* R < S (reverse on); and with R = S the owner does not change.
C6_FlipIffStrictlyBeaten ==
    \A k \in MoveIndices :
        LET prev == History[k - 1]
            next == History[k]
        IN  \A n \in OccupiedNeighbours(prev, next) :
                LET R == RankPlayed(prev, next, n)
                    S == RankNeighbour(prev, next, n)
                IN  /\ (~game.rules.fallen_ace /\ prev.board[n].owner # Mover(prev, next))
                        => (Flipped(prev, next, n)
                                <=> IF game.rules.reverse THEN R < S ELSE R > S)
                    /\ R = S => next.board[n].owner = prev.board[n].owner

\* C6 witness: the last move, applied with reverse and fallen_ace off, flipped
\* a neighbour it beat and left another, of equal or higher rank, alone.
C6_Witness ==
    /\ PlayedIndices # {}
    /\ ~game.rules.reverse /\ ~game.rules.fallen_ace
    /\ LET prev == History[Len(History) - 1]
       IN  /\ \E n \in OccupiedNeighbours(prev, Current) :
                  Flipped(prev, Current, n)
                      /\ RankPlayed(prev, Current, n) > RankNeighbour(prev, Current, n)
           /\ \E n \in OccupiedNeighbours(prev, Current) :
                  /\ prev.board[n].owner # Mover(prev, Current)
                  /\ Current.board[n].owner # Mover(prev, Current)
                  /\ RankPlayed(prev, Current, n) <= RankNeighbour(prev, Current, n)

\* The strict comparison of the played rank R with the neighbour's rank S
StrictlyBeats(R, S, rules) == IF rules.reverse THEN R < S ELSE R > S
ProbeR == GetModifiedValue(probe.other, probe.modifiers, Opposite(probe.direction))
ProbeS == GetModifiedValue(probe.self, probe.modifiers, probe.direction)

\* C7: with fallen_ace on, a played effective rank of exactly 1 flips a
\* neighbour of effective rank exactly 10 (reverse off), a played effective rank
\* of exactly 10 flips a neighbour of effective rank exactly 1 (reverse on), and
\* for every other pair of ranks the outcome is that of the strict comparison.
C7_FallenAce ==
    (probe.kind = "flip" /\ probe.done /\ probe.rules.fallen_ace) =>
        LET ace == IF probe.rules.reverse
                   THEN ProbeR = MAX_VALUE /\ ProbeS = 1
                   ELSE ProbeR = 1 /\ ProbeS = MAX_VALUE
        IN  probe.flipped = (ace \/ StrictlyBeats(ProbeR, ProbeS, probe.rules))

\* C7 witness: fallen_ace on, reverse off, a played effective rank 1 reached by
\* no modifier against an effective rank 10 reached with a modifier, flipped.
C7_Witness ==
    /\ probe.kind = "flip" /\ probe.done
    /\ probe.rules.fallen_ace /\ ~probe.rules.reverse
    /\ ProbeR = 1 /\ ProbeS = MAX_VALUE
    /\ probe.self.values[DirIndex(probe.direction)] < MAX_VALUE
    /\ probe.flipped

\* C8: a move with a card of suit X changes X's modifier by +1 under ascension,
\* by -1 under decension (by 0 under both or neither) and no other modifier; a
\* suitless card changes none.
C8_SuitModifierStep ==
    \A k \in MoveIndices :
        LET prev == History[k - 1]
            next == History[k]
            X == PlayedCard(prev, next).suit
            step == (IF game.rules.ascension THEN 1 ELSE 0)
                        - (IF game.rules.decension THEN 1 ELSE 0)
        IN  \A s \in Suits :
                next.modifiers[s] = prev.modifiers[s] + (IF s = X THEN step ELSE 0)

\* C8 witness: under ascension alone the last move played a suited card and
\* raised its suit's modifier, already raised before, by one.
C8_Witness ==
    /\ PlayedIndices # {}
    /\ game.rules.ascension /\ ~game.rules.decension
    /\ LET prev == History[Len(History) - 1]
           X == PlayedCard(prev, Current).suit
       IN  /\ X # NoSuit
           /\ prev.modifiers[X] >= 1
           /\ Current.modifiers[X] = prev.modifiers[X] + 1

\* C9: the effective rank is the base rank for the direction plus
\* min(max(delta, 0), 10), delta being the modifier of the card's suit (0 for a
\* suitless card); the sum is not clamped.
C9_EffectiveRank ==
    (probe.kind = "rank" /\ probe.done) =>
        LET delta == IF probe.card.suit = NoSuit THEN 0
                     ELSE probe.modifiers[probe.card.suit]
        IN  probe.value = probe.card.values[DirIndex(probe.direction)]
                              + Min(Max(delta, 0), MAX_VALUE)

\* C9 witness: base rank 10 and a modifier above 10 give the effective rank 20.
C9_Witness ==
    /\ probe.kind = "rank" /\ probe.done
    /\ probe.card.suit # NoSuit
    /\ probe.modifiers[probe.card.suit] > MAX_VALUE
    /\ probe.card.values[DirIndex(probe.direction)] = MAX_VALUE
    /\ probe.value = 2 * MAX_VALUE

\* C10: with decension active, once a card of suit X has been played, every
\* card of suit X has an effective rank strictly below its base rank.
C10_DecensionLowersRanks ==
    (game.rules.decension /\ ~game.rules.ascension) =>
        \A X \in Suits :
            (\E c \in Cells : Current.board[c] # Empty
                                /\ GetCard(Current.board[c].card).suit = X)
                => \A id \in CardIds, d \in Directions :
                       GetCard(id).suit = X
                           => GetModifiedValue(GetCard(id), Current.modifiers, d)
                                  < GetCard(id).values[DirIndex(d)]

(***************************************************************************)
(* Enumeration, evaluation, win query, undo                                *)
(***************************************************************************)
EmptyCells(st) == {c \in Cells : st.board[c] = Empty}
OccupiedSlots(st, p) == {s \in Slots : st.hands[p][s] # NoCard}
\* A list of moves runs by board cell ascending and, within a cell, by hand
\* slot ascending, and holds no move twice
CellThenSlotAscending(moves) ==
    \A i \in 1 .. Len(moves), j \in 1 .. Len(moves) :
        i < j => \/ moves[i].placement < moves[j].placement
                 \/ /\ moves[i].placement = moves[j].placement
                    /\ moves[i].card_idx < moves[j].card_idx
\* The list holds exactly the pairs (empty cell, occupied slot of p), in order
IsUnrestricted(moves, st, p) ==
    /\ SeqToSet(moves) = {[player |-> p, card_idx |-> s, placement |-> c] :
                             c \in EmptyCells(st), s \in OccupiedSlots(st, p)}
    /\ Len(moves) = Cardinality(EmptyCells(st)) * Cardinality(OccupiedSlots(st, p))
    /\ CellThenSlotAscending(moves)
\* The score of p counted on the board and the counter themselves
ScoreOf(st, p) ==
    Cardinality({c \in Cells : st.board[c].owner = p}) + st.actual_hand_sizes[p]

\* C11: the unrestricted enumeration for a player holds exactly one move for
\* every pair (empty cell, occupied hand slot of the player) and nothing else,
\* by cell ascending and within a cell by slot ascending; it is empty iff the
\* board is full or the player's hand is empty.
C11_UnrestrictedEnumeration ==
    \A p \in Players :
        LET moves == StateGetPossibleMoves(Current, p, FALSE)
        IN  /\ IsUnrestricted(moves, Current, p)
            /\ \A i \in 1 .. Len(moves) :
                   /\ Current.board[moves[i].placement] = Empty
                   /\ Current.hands[p][moves[i].card_idx] # NoCard
            /\ (Len(moves) = 0)
                   <=> (EmptyCells(Current) = {} \/ OccupiedSlots(Current, p) = {})

\* C11 witness: after moves were applied, a player whose occupied slots are not
\* contiguous is offered every one of them on each of several empty cells.
C11_Witness ==
    /\ PlayedIndices # {}
    /\ \E p \in Players :
           /\ Cardinality(EmptyCells(Current)) >= 2
           /\ Cardinality(OccupiedSlots(Current, p)) >= 2
           /\ \E a \in OccupiedSlots(Current, p), b \in OccupiedSlots(Current, p) :
                  \E h \in Slots : a < h /\ h < b /\ h \notin OccupiedSlots(Current, p)
           /\ Len(StateGetPossibleMoves(Current, p, FALSE))
                  = Cardinality(EmptyCells(Current)) * Cardinality(OccupiedSlots(Current, p))

\* C12: with the order rule active and the enumerated player flagged human,
\* the enumeration holds exactly one move per empty cell if the hand is not
\* empty (none otherwise), each with the lowest occupied hand slot; for a
\* player not flagged human, or without the order rule, it is unrestricted.
C12_OrderRuleEnumeration ==
    \A p \in Players :
        LET moves == GetPossibleMoves(game, p)
            occupied == OccupiedSlots(Current, p)
        IN  IF game.rules.order /\ game.humans[p]
            THEN /\ \A c \in EmptyCells(Current) :
                        Cardinality({i \in 1 .. Len(moves) : moves[i].placement = c})
                            = IF occupied = {} THEN 0 ELSE 1
                 /\ \A i \in 1 .. Len(moves) :
                        /\ moves[i].player = p
                        /\ moves[i].placement \in EmptyCells(Current)
                        /\ moves[i].card_idx = SetMin(occupied)
            ELSE IsUnrestricted(moves, Current, p)

\* C12 witness: under the order rule the human side, holding several cards, is
\* offered one move per empty cell while the other side is offered more.
C12_Witness ==
    /\ PlayedIndices # {}
    /\ game.rules.order /\ game.humans["Blue"] /\ ~game.humans["Red"]
    /\ Cardinality(EmptyCells(Current)) >= 2
    /\ Cardinality(OccupiedSlots(Current, "Blue")) >= 2
    /\ Cardinality(OccupiedSlots(Current, "Red")) >= 2
    /\ Len(GetPossibleMoves(game, "Blue")) = Cardinality(EmptyCells(Current))
    /\ Len(GetPossibleMoves(game, "Red")) > Cardinality(EmptyCells(Current))

C14_LiveEvaluation ==
    ~IsGameOver(Current) =>
        \A p \in Players :
            EvaluateCurrentPositionFor(game, p)
                = ScoreOf(Current, p) - ScoreOf(Current, Other(p))

\* C14 witness: an unfinished match in which the counters differ, so that the
\* evaluation is not the difference of the cells owned.
C14_Witness ==
    /\ PlayedIndices # {}
    /\ ~IsGameOver(Current)
    /\ Current.actual_hand_sizes["Red"] # Current.actual_hand_sizes["Blue"]
    /\ EvaluateCurrentPositionFor(game, "Blue")
           # Cardinality(OwnedCells(Current, "Blue")) - Cardinality(OwnedCells(Current, "Red"))
    /\ EvaluateCurrentPositionFor(game, "Blue") # 0

\* C15: win_state is NotFinished iff some cell is empty; on a full board it is
\* Tie iff the two scores are equal and otherwise the winner is the player
\* with the strictly higher score.
C15_WinState ==
    /\ (WinState(game) = "NotFinished") <=> (EmptyCells(Current) # {})
    /\ EmptyCells(Current) = {} =>
           /\ (WinState(game) = "Tie")
                  <=> (ScoreOf(Current, "Red") = ScoreOf(Current, "Blue"))
           /\ (WinState(game) = "WinnerRed")
                  <=> (ScoreOf(Current, "Red") > ScoreOf(Current, "Blue"))
           /\ (WinState(game) = "WinnerBlue")
                  <=> (ScoreOf(Current, "Blue") > ScoreOf(Current, "Red"))

\* C15 witness: a finished match Red has won although it holds no card more.
C15_Witness ==
    /\ PlayedIndices # {}
    /\ WinState(game) = "WinnerRed"
    /\ Current.actual_hand_sizes["Red"] = 0
    /\ ScoreOf(Current, "Red") > ScoreOf(Current, "Blue")

\* Every sequence of moves for alternating sides that continues g, which lies
\* k moves past origin, is taken back by undo_last_moves of its length
RECURSIVE UndoRestores(_, _, _, _)
UndoRestores(origin, g, player, k) ==
    /\ LET undone == UndoLastMoves(g, k)
       IN  /\ Len(undone.state_and_history) = Len(origin.state_and_history)
           /\ CurrentState(undone) = CurrentState(origin)
           /\ undone = origin
    /\ LET possible_moves == GetPossibleMoves(g, player)
       IN  \A i \in 1 .. Len(possible_moves) :
               UndoRestores(origin, ApplyMove(g, possible_moves[i]), Other(player), k + 1)

\* C16: for every reachable state and every enumerated move, apply_move and
\* then undo_last_moves(1) give back the current snapshot (board, hands,
\* modifiers, counters) and the history length; and so do k moves applied for
\* alternating sides followed by undo_last_moves(k).
C16_UndoRoundTrip ==
    UndoRestores(game, game, current_player, 0)

\* C16 witness: a state with room for two more moves, reached by a move that
\* flipped a card and changed a modifier, whose undo gives the state before.
C16_Witness ==
    /\ PlayedIndices # {}
    /\ Cardinality(EmptyCells(Current)) >= 2
    /\ LET prev == History[Len(History) - 1]
       IN  /\ \E n \in OccupiedNeighbours(prev, Current) : Flipped(prev, Current, n)
           /\ prev.modifiers # Current.modifiers
           /\ CurrentState(UndoLastMoves(game, 1)) = prev

(***************************************************************************)
(* The recommendation: get_best_move_for_player                            *)
(***************************************************************************)
\* The finished boards that moves for alternating sides can lead to from g
RECURSIVE FinalStates(_, _)
FinalStates(g, to_move) ==
    LET possible_moves == GetPossibleMoves(g, to_move)
    IN  IF EmptyCells(CurrentState(g)) = {}
        THEN {CurrentState(g)}
        ELSE UNION {FinalStates(ApplyMove(g, possible_moves[i]), Other(to_move)) :
                       i \in 1 .. Len(possible_moves)}
\* The position after the searching player has played mv in the searched one
Branch(mv) == ApplyMove(TruncateHistoryAndClone(game), mv)
\* Every finished board the branch of mv can lead to is won by the player
ForcedWin(mv, player) ==
    \A st \in FinalStates(Branch(mv), Other(player)) :
        ScoreOf(st, player) > ScoreOf(st, Other(player))
\* A ratio lies in [0, 1]; a ratio is exactly 1
InUnitInterval(ratio) == 0 <= ratio.num /\ ratio.num <= ratio.den
IsOne(ratio) == ratio.num = ratio.den
Searched == GetPossibleMoves(game, search.player)

\* C17: get_best_move_for_player returns no move, with the static evaluation
\* as score and no win-ratio, iff the enumeration for the player is empty in
\* the current state; when a move exists it returns one of the enumerated ones.
C17_NoMoveIffNoneEnumerated ==
    /\ search.pc = "monte_carlo" => Len(Searched) > 0
    /\ search.pc = "done" =>
           /\ (search.result.mv = None) <=> (Len(Searched) = 0)
           /\ search.result.mv = None =>
                  /\ search.result.score = EvaluateCurrentPositionFor(game, search.player)
                  /\ search.result.win_ratio = None
           /\ Len(Searched) > 0 =>
                  \E i \in 1 .. Len(Searched) : search.result.mv = Some(Searched[i])

\* C17 witness: the search was run on a finished match and returned no move
\* with the evaluation of the full board.
C17_Witness ==
    /\ search.pc = "done"
    /\ IsGameOver(Current)
    /\ search.result.mv = None
    /\ search.result.win_ratio = None
    /\ search.result.score \in {100, -30, -100}

\* C18: the Monte Carlo phase runs, and a win-ratio is returned, iff phase 1
\* returned more than one tied move; with exactly one tied move that move is
\* returned with no win-ratio and no playout is executed.  (The list the
\* search holds is compared with phase 1's before the first playout; no step
\* changes it afterwards.)
C18_MonteCarloIffSeveralTied ==
    /\ (search.pc # "idle" /\ search.playouts = 0)
           => search.best_moves = Phase1(game, search.player).moves
    /\ search.pc = "monte_carlo" => Len(search.best_moves) > 1
    /\ search.pc = "done" =>
           /\ (search.result.win_ratio # None) <=> (Len(search.best_moves) > 1)
           /\ (search.playouts > 0) <=> (Len(search.best_moves) > 1)
           /\ Len(search.best_moves) = 1 =>
                  /\ search.result.mv = Some(search.best_moves[1])
                  /\ search.result.win_ratio = None
                  /\ search.playouts = 0

\* C18 witness: with several moves to choose from phase 1 returned a single
\* best move, which was returned at once.
C18_Witness ==
    /\ search.pc = "done"
    /\ Len(Searched) > 1
    /\ Len(search.best_moves) = 1
    /\ search.result.mv = Some(search.best_moves[1])
    /\ search.playouts = 0

C20_ReductionKeepsMaximum ==
    (search.pc = "done" /\ Len(search.best_moves) > 1) =>
        /\ \A j \in 1 .. Len(search.best_moves) : search.win_ratios[j] # None
        /\ search.result.mv # None
        /\ \E i \in 1 .. Len(search.best_moves) :
               /\ search.result.mv = Some(search.best_moves[i])
               /\ search.result.win_ratio = search.win_ratios[i]
        /\ \A j \in 1 .. Len(search.best_moves) :
               ~RatioGreater(search.win_ratios[j][1], search.result.win_ratio[1])

\* C20 witness: of three candidates with ratios not all equal, one that is
\* neither the first nor the last has survived with the greatest ratio.
C20_Witness ==
    /\ search.pc = "done"
    /\ Len(search.best_moves) >= 3
    /\ \E i \in 2 .. (Len(search.best_moves) - 1) :
           /\ search.result.mv = Some(search.best_moves[i])
           /\ \E j \in 1 .. Len(search.best_moves) :
                  RatioGreater(search.win_ratios[i][1], search.win_ratios[j][1])

(***************************************************************************)
(* The engine's history, clones and rule flags                             *)
(***************************************************************************)
OccupiedCells(st) == Cells \ EmptyCells(st)
\* The engine of a candidate's worker that has not run yet
WaitingTasks == {i \in 1 .. Len(search.items) : search.items[i].kind = "task"}

\* C22: truncate_history_and_clone returns an engine with a history of depth
\* exactly 1 whose single snapshot is the source's current snapshot, with the
\* source's rules and human flags; a move applied to the clone (the branch a
\* worker is handed) adds a snapshot to the clone alone, the source's current
\* snapshot staying first in the clone and last in the source.
C22_TruncateHistoryAndClone ==
    LET clone == TruncateHistoryAndClone(game)
    IN  /\ Len(clone.state_and_history) = 1
        /\ clone.state_and_history[1] = Current
        /\ clone.rules = game.rules
        /\ clone.humans = game.humans
        /\ search.pc = "monte_carlo" =>
               \A i \in WaitingTasks :
                   LET branch == search.items[i].game
                   IN  /\ Len(branch.state_and_history) = 2
                       /\ branch.state_and_history[1] = Current
                       /\ branch.rules = game.rules
                       /\ branch.humans = game.humans
                       /\ branch = ApplyMove(clone, search.items[i].mv)

\* C22 witness: from an engine with rules and several snapshots, branches of
\* depth 2 were made for the workers, and the engine still has its history.
C22_Witness ==
    /\ search.pc = "monte_carlo"
    /\ Len(History) > 2
    /\ game.rules # NoRules
    /\ WaitingTasks # {}
    /\ \A i \in WaitingTasks :
           /\ Len(search.items[i].game.state_and_history) = 2
           /\ CurrentState(search.items[i].game) # Current

\* C23: along every sequence of applied moves, a board cell that is occupied
\* stays occupied and holds the same card in every later snapshot; only its
\* owner may change, and only to the other player.
C23_OccupiedCellKeepsCard ==
    \A k \in MoveIndices : \A c \in Cells :
        History[k - 1].board[c] # Empty =>
            /\ History[k].board[c] # Empty
            /\ History[k].board[c].card = History[k - 1].board[c].card
            /\ History[k].board[c].owner \in Players

\* C23 witness: a card lies where it was played several moves ago, owned by
\* the side that did not own it then.
C23_Witness ==
    /\ PlayedIndices # {}
    /\ \E k \in 2 .. (Len(History) - 2) : \E c \in Cells :
           /\ History[k].board[c] # Empty
           /\ Current.board[c].card = History[k].board[c].card
           /\ Current.board[c].owner # History[k].board[c].owner

\* The engines that differ from g in the flags same, plus, chaos and swap only
RuleFlagVariants(g) ==
    {[g EXCEPT !.rules.same = sa, !.rules.plus = pl, !.rules.chaos = ch, !.rules.swap = sw] :
        sa \in BOOLEAN, pl \in BOOLEAN, ch \in BOOLEAN, sw \in BOOLEAN}

\* C24: the flags same, plus, chaos and swap have no effect: an engine that
\* differs from the match's engine in these four flags only enumerates the
\* same moves, evaluates and judges the position the same, and apply_move
\* gives it the same snapshot for every move of the side to move (so the two
\* engines differ in these flags only after the move as well).
C24_IgnoredRuleFlags ==
    search.pc = "idle" =>
        \A v \in RuleFlagVariants(game) :
            /\ WinState(v) = WinState(game)
            /\ \A p \in Players :
                   /\ GetPossibleMoves(v, p) = GetPossibleMoves(game, p)
                   /\ EvaluateCurrentPositionFor(v, p) = EvaluateCurrentPositionFor(game, p)
            /\ \A i \in 1 .. Len(GetPossibleMoves(game, current_player)) :
                   LET mv == GetPossibleMoves(game, current_player)[i]
                   IN  ApplyMove(v, mv).state_and_history
                           = ApplyMove(game, mv).state_and_history

\* C24 witness: under the same rule a card was played next to an opposing
\* card of equal rank, which was not captured.
C24_Witness ==
    /\ search.pc = "idle"
    /\ game.rules.same
    /\ Len(History) > SearchOpeningLen + 1
    /\ LET prev == History[Len(History) - 1]
       IN  \E n \in OccupiedNeighbours(prev, Current) :
               /\ prev.board[n].owner # Mover(prev, Current)
               /\ RankPlayed(prev, Current, n) = RankNeighbour(prev, Current, n)
               /\ Current.board[n].owner = prev.board[n].owner

\* C28: undo_last_moves(n) always returns: with n smaller than the length of
\* the history it removes exactly the n most recent snapshots, with n equal
\* to or greater than it the history is left empty; rules and human flags
\* stay.
C28_UndoNeverFails ==
    \A n \in 0 .. (Len(History) + 2) :
        LET undone == UndoLastMoves(game, n)
        IN  /\ n < Len(History) =>
                   undone.state_and_history = SubSeq(History, 1, Len(History) - n)
            /\ n >= Len(History) => undone.state_and_history = <<>>
            /\ undone.rules = game.rules
            /\ undone.humans = game.humans

\* C28 witness: in a match with moves applied, an undo
\* of one move leaves the snapshot before, and an undo of as many moves as
\* the history is long, or more, leaves no snapshot.
C28_Witness ==
    /\ Len(History) > SearchOpeningLen + 1
    /\ Len(History) < BoardCells + 1
    /\ CurrentState(UndoLastMoves(game, 1)) = History[Len(History) - 1]
    /\ Len(UndoLastMoves(game, Len(History) - 1).state_and_history) = 1
    /\ UndoLastMoves(game, Len(History)).state_and_history = <<>>
    /\ UndoLastMoves(game, Len(History) + 1).state_and_history = <<>>

\* C29: a new Game has exactly one snapshot, with an empty board; every
\* apply_move makes the history one longer and leaves the earlier snapshots
\* as they are; so the history of a match is 1 + (moves applied and not
\* undone) long, snapshot k having k - 1 occupied cells, and an undo of u
\* moves leaves exactly the first Len - u snapshots.
C29_AppendOnlyHistory ==
    /\ \A human_color \in Players :
           NewGame(human_color).state_and_history = <<DefaultGameState>>
    /\ OccupiedCells(DefaultGameState) = {}
    /\ \A k \in 1 .. Len(History) : Cardinality(OccupiedCells(History[k])) = k - 1
    /\ \A i \in 1 .. Len(GetPossibleMoves(game, current_player)) :
           LET after == ApplyMove(game, GetPossibleMoves(game, current_player)[i])
           IN  /\ Len(after.state_and_history) = Len(History) + 1
               /\ SubSeq(after.state_and_history, 1, Len(History)) = History
    /\ \A u \in 0 .. (Len(History) - 1) :
           UndoLastMoves(game, u).state_and_history = SubSeq(History, 1, Len(History) - u)

\* C29 witness: moves were applied since the explored part of the match
\* began, more can be, and the history has one snapshot per occupied cell
\* and the one of the empty board.
C29_Witness ==
    /\ PlayedIndices # {}
    /\ Len(GetPossibleMoves(game, current_player)) > 0
    /\ Len(History) = 1 + Cardinality(OccupiedCells(Current))
    /\ OccupiedCells(History[1]) = {}

\* C30 (as stated): in every state of a match a player has at most 5 occupied
\* hand slots and is offered at most 5 * 9 = 45 moves.
C30_AtMostFiveCards ==
    \A k \in 1 .. Len(History) : \A p \in Players :
        /\ Cardinality(OccupiedSlots(History[k], p)) <= DeckSize
        /\ Len(StateGetPossibleMoves(History[k], p, FALSE)) <= DeckSize * BoardCells

\* C30 (amended): in every state of a match a player has at most 10 occupied
\* hand slots, at most 5 if the hand was set up by set_cards_in_hand (the
\* human side), each move having emptied one slot of the mover and none of
\* the other side; the player is offered one move per occupied slot and empty
\* cell, so at most 10 * 9 = 90 moves, at most 45 for the human side (the
\* enumeration is taken at the start of the match and in the current state).
C30_AtMostTenCards ==
    \A p \in Players :
        LET limit == IF game.humans[p] THEN DeckSize ELSE HandSlots
        IN  /\ Cardinality(OccupiedSlots(History[1], p)) <= limit
            /\ \A k \in MoveIndices :
                   Cardinality(OccupiedSlots(History[k], p))
                       = Cardinality(OccupiedSlots(History[k - 1], p))
                             - (IF Mover(History[k - 1], History[k]) = p THEN 1 ELSE 0)
            /\ \A st \in {History[1], Current} :
                   LET offered == Len(StateGetPossibleMoves(st, p, FALSE))
                   IN  /\ offered = Cardinality(OccupiedSlots(st, p))
                                        * Cardinality(EmptyCells(st))
                       /\ offered <= limit * BoardCells

\* C30 witness: an NPC that began the match with six cards, offered 54 moves
\* on the empty board, has played some of them.
C30_Witness ==
    /\ Len(History) > SearchOpeningLen + 1
    /\ Cardinality(OccupiedSlots(History[1], "Red")) = 6
    /\ Len(StateGetPossibleMoves(History[1], "Red", FALSE)) = 54
    /\ Cardinality(OccupiedSlots(Current, "Red")) < 4

(***************************************************************************)
(* Backtracking in the search                                              *)
(***************************************************************************)
\* alpha_beta on the match's engine for the side to move leaves the engine
\* as it found it: same history, hence same length and same current state
Backtracks(depth, alpha, beta) ==
    AlphaBeta(game, depth, alpha, beta, current_player).game = game

SearchDepths == {0, 1, 2, 3, SearchDepth}
SearchWindows ==
    {<<NEG_INFINITY, INFINITY>>, <<-30, 30>>, <<-1, 1>>, <<0, 100>>, <<-100, 0>>}

\* C27: alpha_beta backtracks completely: for every position, for the depths
\* 0 to 3 and the full depth and for wide, narrow and one-sided windows (the
\* first one ends the loop at the root after one move), the engine's history
\* on return is the history on entry, also when a cutoff ends a loop early.
C27_AlphaBetaBacktracks ==
    search.pc = "idle" =>
        /\ Backtracks(1, NEG_INFINITY, -100)
        /\ \A depth \in SearchDepths, w \in SearchWindows : Backtracks(depth, w[1], w[2])

\* C27 witness: the search with the window (-30, 30) found a won line and
\* ended the loop at the root before the last enumerated move, and the engine
\* has the history it had.
C27_Witness ==
    /\ search.pc = "idle"
    /\ Len(History) > SearchOpeningLen + 1
    /\ LET r == AlphaBeta(game, SearchDepth, -30, 30, current_player)
           possible_moves == GetPossibleMoves(game, current_player)
       IN  /\ r.value >= 30
           /\ r.moves[Len(r.moves)] # possible_moves[Len(possible_moves)]
           /\ r.game = game

(***************************************************************************)
(* The playouts                                                            *)
(***************************************************************************)
\* The result a playout records for player on the finished board st
Recorded(st, player) ==
    IF ScoreOf(st, player) > ScoreOf(st, Other(player)) THEN "PlayerWin"
    ELSE IF ScoreOf(st, player) = ScoreOf(st, Other(player)) THEN "Tie"
    ELSE "OpponentWin"
\* The branches of the side to move: a truncated clone with one move applied
Branches ==
    {Branch(GetPossibleMoves(game, current_player)[i]) :
        i \in 1 .. Len(GetPossibleMoves(game, current_player))}

\* C25: a playout undoes exactly as many moves as it applied: for every
\* branch of the side to move and every sequence of random choices,
\* simulate_game_once leaves the worker's engine with the history (so the
\* length and the current state) it had before, and so does every playout of
\* a candidate's worker that follows.
C25_PlayoutRestoresBranch ==
    /\ search.pc = "idle" =>
           \A branch \in Branches :
               \A o \in SimulateGameOnce(branch, current_player) : o.game = branch
    /\ (search.pc = "monte_carlo" /\ search.playouts = 0) =>
           \A i \in WaitingTasks :
               \A o \in SimulateGameOnce(search.items[i].game, search.player) :
                   /\ o.game = search.items[i].game
                   /\ \A o2 \in SimulateGameOnce(o.game, search.player) :
                          o2.game = search.items[i].game

\* C25 witness: a worker ran its playouts on a branch with two or more empty
\* cells, where playouts apply two or more moves and end in different ways.
C25_Witness ==
    /\ search.pc = "monte_carlo"
    /\ search.playouts > 0
    /\ \E i \in 1 .. Len(search.best_moves) :
           /\ search.win_ratios[i] # None
           /\ Cardinality(EmptyCells(CurrentState(Branch(search.best_moves[i])))) >= 2
           /\ Cardinality({o.result : o \in SimulateGameOnce(Branch(search.best_moves[i]),
                                                             search.player)}) >= 2

\* C26: every playout from a branch of a match with alternating sides ends:
\* while a cell is empty the side to move has a move (the random choice is
\* never made from an empty list), the playout applies exactly as many moves
\* as the branch has empty cells, and what it records is a win, tie or loss
\* of the evaluating player on a finished board the branch leads to.
C26_PlayoutTerminates ==
    search.pc = "idle" =>
        \A branch \in Branches :
            LET outcomes == SimulateGameOnce(branch, current_player)
            IN  /\ outcomes # {}
                /\ \A o \in outcomes :
                       /\ o.result \in {"PlayerWin", "Tie", "OpponentWin"}
                       /\ o.moves_taken = Cardinality(EmptyCells(CurrentState(branch)))
                /\ {o.result : o \in outcomes}
                       = {Recorded(st, current_player) :
                             st \in FinalStates(branch, Other(current_player))}

\* C26 witness: a branch with two or more empty cells, from which playouts
\* of as many moves end in a win and in a loss of the evaluating player.
C26_Witness ==
    /\ search.pc = "idle"
    /\ \E branch \in Branches :
           /\ Cardinality(EmptyCells(CurrentState(branch))) >= 2
           /\ \E o \in SimulateGameOnce(branch, current_player) :
                  o.result = "PlayerWin" /\ o.moves_taken >= 2
           /\ \E o \in SimulateGameOnce(branch, current_player) :
                  o.result = "OpponentWin"

(***************************************************************************)
(* The workers                                                             *)
(***************************************************************************)
\* The engine handed to worker i when the workers were started
OwnEngine(srch, i) == srch.engines[i]

\* C21: in the parallel region every step of a worker changes the engine that
\* worker was handed and no other: a worker that took no step finds its
\* engine as it left it, under every interleaving of the workers' playout
\* moves, undos and returns; and no step of get_best_move_for_player, from
\* the call to the return, changes the caller's engine.
C21_WorkersIsolated ==
    [][/\ (search.pc = "workers" /\ search'.pc = "workers") =>
              \A i \in 1 .. Len(search.items) :
                  search'.items[i] = search.items[i]
                      => OwnEngine(search', i) = OwnEngine(search, i)
       /\ (search.pc \in {"idle", "workers"} /\ search'.pc \in {"workers", "done"})
              => game' = game]_vars

\* C21 witness: two workers are in the middle of a playout at the same time,
\* each with moves applied to its engine, and the caller's engine differs
\* from both.
C21_Witness ==
    /\ search.pc = "workers"
    /\ \E i, j \in 1 .. Len(search.items) :
           /\ i # j
           /\ search.items[i].moves_taken >= 1
           /\ search.items[j].moves_taken >= 1
           /\ OwnEngine(search, i) # OwnEngine(search, j)
           /\ CurrentState(OwnEngine(search, i)) # Current
           /\ CurrentState(OwnEngine(search, j)) # Current

(***************************************************************************)
(* What a move changes                                                     *)
(***************************************************************************)
\* The neighbour n of the move from prev to next is beaten under modifiers
BeatenUnder(prev, next, n, modifiers) ==
    IsFlippedBy(GetCard(prev.board[n].card), PlayedCard(prev, next),
                Facing(n, PlacedCell(prev, next)), modifiers, game.rules)

\* C31: the flip checks of a move use the suit modifiers as they were before
\* the move: a neighbour belongs to the mover after the move iff it did
\* before or is beaten under the modifiers of the snapshot before; the change
\* the played card makes to its suit's modifier is in the snapshot after the
\* move, which is the one the next move's checks use.
C31_FlipsUseModifiersBefore ==
    search.pc = "idle" =>
        \A k \in MoveIndices :
            LET prev == History[k - 1]
                next == History[k]
            IN  /\ \A n \in OccupiedNeighbours(prev, next) :
                       (next.board[n].owner = Mover(prev, next))
                           <=> \/ prev.board[n].owner = Mover(prev, next)
                               \/ BeatenUnder(prev, next, n, prev.modifiers)
                /\ next.modifiers
                       = ApplySuitRules(prev.modifiers, PlayedCard(prev, next), game.rules)

\* C31 witness: the last move raised its suit's modifier and left alone an
\* opposing neighbour that it beats under the raised modifier but not under
\* the one before; an earlier move had raised a modifier too.
C31_Witness ==
    /\ search.pc = "idle"
    /\ PlayedIndices # {}
    /\ LET prev == History[Len(History) - 1]
       IN  /\ prev.modifiers # Current.modifiers
           /\ prev.modifiers # History[1].modifiers
           /\ \E n \in OccupiedNeighbours(prev, Current) :
                  /\ prev.board[n].owner # Mover(prev, Current)
                  /\ Current.board[n].owner = prev.board[n].owner
                  /\ ~BeatenUnder(prev, Current, n, prev.modifiers)
                  /\ BeatenUnder(prev, Current, n, Current.modifiers)

\* The slot the mover played from in the move from prev to next
PlayedSlot(prev, next) ==
    CHOOSE s \in Slots :
        prev.hands[Mover(prev, next)][s] # next.hands[Mover(prev, next)][s]

\* C32: apply_move changes only the played hand slot (emptied), the mover's
\* counter (one less), the target cell (the played card, the mover's), the
\* owner of occupied cells orthogonally next to the target, and the modifier
\* of the played card's suit; the other side's hand and counter, the mover's
\* other slots, the cards on the board, the empty cells and every cell that
\* is not an orthogonal neighbour of the target stay as they are.
C32_ApplyMoveFrame ==
    search.pc = "idle" =>
        \A k \in MoveIndices :
            LET prev == History[k - 1]
                next == History[k]
                mover == Mover(prev, next)
                target == PlacedCell(prev, next)
                slot == PlayedSlot(prev, next)
            IN  /\ prev.hands[mover][slot] = next.board[target].card
                /\ next.hands[mover] = [prev.hands[mover] EXCEPT ![slot] = NoCard]
                /\ next.hands[Other(mover)] = prev.hands[Other(mover)]
                /\ next.actual_hand_sizes
                       = [prev.actual_hand_sizes EXCEPT ![mover] = @ - 1]
                /\ \A c \in Cells \ {target} :
                       /\ next.board[c].card = prev.board[c].card
                       /\ c \notin OrthogonalNeighbours(target) => next.board[c] = prev.board[c]
                       /\ next.board[c].owner \in {prev.board[c].owner, mover}
                       /\ prev.board[c] = Empty => next.board[c] = Empty
                /\ \A suit \in Suits :
                       suit # PlayedCard(prev, next).suit =>
                           next.modifiers[suit] = prev.modifiers[suit]

\* C32 witness: the last move, on the first or last cell of the middle row,
\* captured an orthogonal neighbour and left alone the opposing card on the
\* cell numbered next to it in the row above or below.
C32_Witness ==
    /\ search.pc = "idle"
    /\ PlayedIndices # {}
    /\ LET prev == History[Len(History) - 1]
           target == PlacedCell(prev, Current)
           across == IF target = 3 THEN 2 ELSE 6
       IN  /\ target \in {3, 5}
           /\ \E n \in OccupiedNeighbours(prev, Current) : Flipped(prev, Current, n)
           /\ prev.board[across] # Empty
           /\ prev.board[across].owner # Mover(prev, Current)
           /\ Current.board[across] = prev.board[across]

(***************************************************************************)
(* Scores                                                                  *)
(***************************************************************************)
\* C33: in every snapshot of a match begun with the counters 5 and 5 the two
\* scores (owned cells + counter) sum to 10, so a finished tie is 5 to 5,
\* and every evaluation of an unfinished snapshot is an even number from
\* -10 to 10.
C33_ScoresSumToTen ==
    search.pc = "idle" =>
        \A k \in 1 .. Len(History) :
            LET st == History[k]
            IN  /\ ScoreOf(st, "Red") + ScoreOf(st, "Blue") = 2 * DeckSize
                /\ Scores(st)["Red"] + Scores(st)["Blue"] = 2 * DeckSize
                /\ (IsGameOver(st) /\ Scores(st)["Red"] = Scores(st)["Blue"])
                       => Scores(st)["Red"] = DeckSize
                /\ ~IsGameOver(st) =>
                       \A p \in Players :
                           /\ EvalPosition(st, p) % 2 = 0
                           /\ EvalPosition(st, p) >= -2 * DeckSize
                           /\ EvalPosition(st, p) <= 2 * DeckSize

\* C33 witness: a match against the NPC with six cards in hand has ended
\* five to five, after snapshots with a lead of two or more.
C33_Witness ==
    /\ search.pc = "idle"
    /\ Cardinality(OccupiedSlots(History[1], "Red")) > DeckSize
    /\ IsGameOver(Current)
    /\ Scores(Current)["Red"] = DeckSize
    /\ Scores(Current)["Blue"] = DeckSize
    /\ \E k \in 1 .. (Len(History) - 1) : EvalPosition(History[k], "Blue") >= 2

\* C34: apply_move never gives a cell to anyone but the mover: after every
\* move each cell is owned as before or by the mover, the mover's score
\* (owned cells + counter) is at least what it was and the other side's at
\* most what it was.
C34_OnlyMoverGains ==
    search.pc = "idle" =>
        \A k \in MoveIndices :
            LET prev == History[k - 1]
                next == History[k]
                mover == Mover(prev, next)
            IN  /\ \A c \in Cells \ {PlacedCell(prev, next)} :
                       next.board[c].owner \in {prev.board[c].owner, mover}
                /\ next.board[PlacedCell(prev, next)].owner = mover
                /\ Scores(next)[mover] >= Scores(prev)[mover]
                /\ Scores(next)[Other(mover)] <= Scores(prev)[Other(mover)]

\* C34 witness: the last move beat a card of the mover's own, which stayed
\* the mover's, and captured an opposing one: the mover's score rose by one
\* and the other side's fell by one.
C34_Witness ==
    /\ search.pc = "idle"
    /\ Len(History) > SearchOpeningLen + 1
    /\ LET prev == History[Len(History) - 1]
           mover == Mover(prev, Current)
       IN  /\ \E n \in OccupiedNeighbours(prev, Current) :
                  /\ prev.board[n].owner = mover
                  /\ BeatenUnder(prev, Current, n, prev.modifiers)
                  /\ Current.board[n].owner = mover
           /\ Scores(Current)[mover] = Scores(prev)[mover] + 1
           /\ Scores(Current)[Other(mover)] = Scores(prev)[Other(mover)] - 1

(***************************************************************************)
(* Phase 1 and the depth of the search                                     *)
(***************************************************************************)
\* Every position the recursion of alpha_beta can evaluate from g (depth 0
\* or no move for the side to move; here without any cutoff, so these are
\* all it could visit) has a full board
RECURSIVE LeavesAreFull(_, _, _)
LeavesAreFull(g, depth, player) ==
    LET possible_moves == GetPossibleMoves(g, player)
    IN  IF depth = 0 \/ Len(possible_moves) = 0
        THEN IsGameOver(CurrentState(g))
        ELSE \A i \in 1 .. Len(possible_moves) :
                 LeavesAreFull(ApplyMove(g, possible_moves[i]), depth - 1, Other(player))

\* The values of a finished match as they arrive at the root
FinishedValues == {-100, -30, 30, 100}

C36_FullWindowScoreIsNegamax ==
    search.pc = "idle" =>
        \A depth \in SearchDepths, player \in Players :
            AlphaBeta(game, depth, NEG_INFINITY, INFINITY, player).value
                = Negamax(game, depth, player)

\* C36 witness: a position with three empty cells where cutoffs below the
\* root were taken (a move of the returned list has an exact value below the
\* returned one, so its subtree was searched in part only) and the returned
\* score is the negamax value.
C36_Witness ==
    /\ search.pc = "idle"
    /\ Cardinality(EmptyCells(Current)) = 3
    /\ LET r == AlphaBeta(game, SearchDepth, NEG_INFINITY, INFINITY, current_player)
       IN  /\ r.value = Negamax(game, SearchDepth, current_player)
           /\ \E i \in 1 .. Len(r.moves) :
                  ExactMoveValue(game, r.moves[i], current_player) < r.value

(***************************************************************************)
(* The reduction as an algebra                                             *)
(***************************************************************************)
\* The selections the reduction of the present search can meet:
\* no_move_selection() and every candidate with every ratio
Selections ==
    {NoMoveSelection} \cup
    {[mv |-> Some(search.best_moves[i]), win_ratio |-> ratio] :
        i \in 1 .. Len(search.best_moves),
        ratio \in {WinRatio(c[1], c[2], search.iterations) :
                      c \in {d \in (0 .. search.iterations) \X (0 .. search.iterations) :
                                d[1] + d[2] <= search.iterations}}}

\* The last candidate, in the order of best_moves, among those of maximal ratio
LastMaximal ==
    SetMax({i \in 1 .. Len(search.best_moves) :
               \A j \in 1 .. Len(search.best_moves) :
                   ~RatioGreater(search.win_ratios[j][1], search.win_ratios[i][1])})

\* C37: combine_move_selection is associative and no_move_selection() is its
\* identity on both sides (over the selections a reduction can meet, checked
\* where the reduction starts); and whatever the grouping of the reduction,
\* the candidate that survives is the last one in the order of the list
\* among those with the maximal ratio.
C37_ReductionIsOrderIndependent ==
    /\ (search.pc = "monte_carlo" /\ WaitingTasks = 1 .. Len(search.items)) =>
           /\ \A a \in Selections :
                  /\ CombineMoveSelection(NoMoveSelection, a) = a
                  /\ CombineMoveSelection(a, NoMoveSelection) = a
           /\ \A a \in Selections, b \in Selections, c \in Selections :
                  CombineMoveSelection(CombineMoveSelection(a, b), c)
                      = CombineMoveSelection(a, CombineMoveSelection(b, c))
    /\ (search.pc = "done" /\ Len(search.best_moves) > 1) =>
           /\ search.result.mv = Some(search.best_moves[LastMaximal])
           /\ search.result.win_ratio = search.win_ratios[LastMaximal]

\* C37 witness: of three candidates two have the maximal ratio, the third a
\* smaller one, and the later of the two has survived.
C37_Witness ==
    /\ search.pc = "done"
    /\ Len(search.best_moves) >= 3
    /\ \E i \in 1 .. Len(search.best_moves) :
           /\ i < LastMaximal
           /\ search.win_ratios[i] = search.win_ratios[LastMaximal]
    /\ \E j \in 1 .. Len(search.best_moves) :
           RatioGreater(search.win_ratios[LastMaximal][1], search.win_ratios[j][1])
    /\ search.result.mv = Some(search.best_moves[LastMaximal])

====
